---- MODULE Spec2Model ----
(***************************************************************************)
(* A model of the playout control engine of shuffled (src/src/server.rs):  *)
(* the playlist registry and its reconciliation, the special queue, the    *)
(* request parser and the connection handler.                              *)
(*                                                                         *)
(* Track paths are the strings of Tracks, playlist names the strings of    *)
(* Names.  Indices are 0-based as in the source; sequence s holds index i  *)
(* at s[i + 1].                                                            *)
(***************************************************************************)
EXTENDS Integers, Sequences, FiniteSets, TLC

\* ------------------------------------------------------------------ bounds

\* The track paths that exist as regular files.
Tracks == {"a", "b", "c", "d"}

\* Longest playlist drawn as an input of merge_songs / diff_playlist.
MaxLen == 3

\* Longest to_add / to_remove list drawn as an input of merge_songs.
MaxDelta == 2

\* The playlist names (file stems) that can appear in the playlist directory.
Names == {"p1", "p2"}

\* The tracks the playlist files of the directory list, in the order a file
\* lists them.
DiskTrackList == <<"a", "b", "c">>

\* Most entries of one playlist file.
MaxFileLen == 2

\* The clock stops here.
MaxTime == 2

\* SpecialQueue.interval (special.interval_min of the configuration), in
\* clock ticks.
Interval == 1

\* Most members of a request object drawn as an input of try_parse_request.
MaxMembers == 2

\* Most reads that return bytes on one connection.
MaxReads == 2

\* Longest playlist a preview is processed on.
MaxPreviewLen == 6

\* usize is modelled with WordBits bits: the arithmetic of merge_songs wraps
\* (or is checked) at 2^WordBits exactly as it does at 2^64, and every list
\* is far shorter than either.
WordBits == 8

USIZE_MODULUS == 2 ^ WordBits

\* ----------------------------------------------------------------- helpers

Range(s) == {s[i] : i \in 1..Len(s)}

NoDup(s) == \A i, j \in 1..Len(s) : s[i] = s[j] => i = j

\* The duplicate-free sequences over S of length lo..hi.
DistinctSeqs(S, lo, hi) ==
  UNION {{s \in [1..k -> S] : NoDup(s)} : k \in lo..hi}

\* Vec::contains
Contains(s, x) == \E i \in 1..Len(s) : s[i] = x

\* Vec::remove(at), at 0-based and in range.
RemoveAt(s, at) == SubSeq(s, 1, at) \o SubSeq(s, at + 2, Len(s))

\* shuffle: sort_unstable_by_key with a fresh random key at every call; any
\* order of the same elements can come out.
shuffle(s) ==
  {t \in [1..Len(s) -> Range(s)] :
     \A x \in Range(s) : Cardinality({i \in 1..Len(s) : t[i] = x})
                         = Cardinality({i \in 1..Len(s) : s[i] = x})}

\* ---------------------------------------------------------------- Playlist

\* Playlist::new: None for an empty list, else position 0.
PlaylistNew(songs) == [position |-> 0, songs |-> songs]

\* A variant that leaves the position where it is.
seek_ignored(pl, position) == pl

\* Playlist::seek
seek(pl, position) ==
  [pl EXCEPT !.position = position % Len(pl.songs)]

\* A variant that answers the first song whatever the position.
current_first(pl) == pl.songs[1]

\* Playlist::current: the index pl.position of pl.songs; out of range panics.
CurrentInRange(pl) == pl.position < Len(pl.songs)

current(pl) == pl.songs[pl.position + 1]

\* A variant that stops at the last song.
next_stops_at_end(pl) ==
  [pl EXCEPT !.position = IF pl.position + 1 < Len(pl.songs)
                          THEN pl.position + 1 ELSE pl.position]

\* Playlist::next
next(pl) == [pl EXCEPT !.position = (pl.position + 1) % Len(pl.songs)]

\* A variant that adds every song of the file.
diff_playlist_adds_all(pl, playlist) ==
  [to_add    |-> playlist,
   to_remove |-> SelectSeq(pl.songs, LAMBDA song : ~Contains(playlist, song))]

\* Playlist::diff_playlist
diff_playlist(pl, playlist) ==
  [to_add    |-> SelectSeq(playlist, LAMBDA song : ~Contains(pl.songs, song)),
   to_remove |-> SelectSeq(pl.songs, LAMBDA song : ~Contains(playlist, song))]

\* The first loop of merge_songs: the indices (ascending) of the songs that
\* to_remove contains.
RECURSIVE IndicesFrom(_, _, _)
IndicesFrom(songs, to_remove, idx) ==
  IF idx >= Len(songs) THEN <<>>
  ELSE (IF Contains(to_remove, songs[idx + 1]) THEN <<idx>> ELSE <<>>)
       \o IndicesFrom(songs, to_remove, idx + 1)

\* (mutant) the scan stops at the first song found.
to_remove_indices_first_only(songs, to_remove) ==
  LET all == IndicesFrom(songs, to_remove, 0)
  IN  IF all = <<>> THEN <<>> ELSE <<Head(all)>>

to_remove_indices(songs, to_remove) == IndicesFrom(songs, to_remove, 0)

\* (mutant) the removed index is compared with <=.
RemovalShiftsPosition_inclusive(idx, position) == idx <= position

\* The comparison merge_songs makes after each removal: the ORIGINAL index
\* of the removed song against the position as it is by now.
RemovalShiftsPosition(idx, position) == idx < position

\* The final check of merge_songs.
PositionOutOfRange(position, len) == position > len

\* The second loop of merge_songs.  offset is a usize that starts at 0 and is
\* decremented after every removal: with overflow checks (a debug build) the
\* first decrement panics, without them (a release build) it wraps and
\* idx + offset wraps back.  A panic leaves the playlist as it is by then.
RECURSIVE RemoveLoop(_, _, _, _, _)
RemoveLoop(songs, position, idxs, offset, checks) ==
  IF idxs = <<>> THEN [songs |-> songs, position |-> position, panic |-> FALSE]
  ELSE
    LET idx == Head(idxs)
        sum == idx + offset
        at  == sum % USIZE_MODULUS
    IN  IF (checks /\ sum >= USIZE_MODULUS) \/ at >= Len(songs)
        THEN [songs |-> songs, position |-> position, panic |-> TRUE]
        ELSE
          LET songs1    == RemoveAt(songs, at)
              position1 == IF RemovalShiftsPosition(idx, position)
                           THEN position - 1 ELSE position
          IN  IF checks /\ offset = 0
              THEN [songs |-> songs1, position |-> position1, panic |-> TRUE]
              ELSE RemoveLoop(songs1, position1, Tail(idxs),
                              (offset + USIZE_MODULUS - 1) % USIZE_MODULUS,
                              checks)

\* (mutant) the added songs are put in front.
merge_songs_prepend(pl, to_add, to_remove, checks) ==
  LET r == RemoveLoop(pl.songs, pl.position,
                      to_remove_indices(pl.songs, to_remove), 0, checks)
  IN  IF r.panic THEN r
      ELSE [songs |-> to_add \o r.songs, position |-> r.position, panic |-> FALSE]

\* Playlist::merge_songs
merge_songs(pl, to_add, to_remove, checks) ==
  LET r == RemoveLoop(pl.songs, pl.position,
                      to_remove_indices(pl.songs, to_remove), 0, checks)
  IN  IF r.panic THEN r
      ELSE LET songs == r.songs \o to_add
           IN  [songs    |-> songs,
                position |-> IF PositionOutOfRange(r.position, Len(songs))
                             THEN 0 ELSE r.position,
                panic    |-> FALSE]

\* ------------------------------------------------------------------- state

VARIABLES
  overflow_checks,   \* the build: TRUE when integer overflow panics
  panicked,          \* the server thread has panicked (and is gone)
  playlists,         \* PlaylistQueue.playlists: name -> Playlist
  current_playlist,  \* PlaylistQueue.current_playlist
  id3_tags,          \* PlaylistQueue.id3_tags: path -> tag
  sq_entries,        \* SpecialQueue.entries
  sq_position,       \* SpecialQueue.position
  last_play_time,    \* SpecialQueue.last_play_time
  now,               \* SystemTime::now()
  response,          \* the response of the last request processed
  last_request,      \* that request, and the selection it found
  connected,         \* process_connection is running
  command_buffer,    \* its command_buffer
  sent,              \* the response lines written to the client so far
  received,          \* what each read of the connection returned, in order
  last_read,         \* what the last read dispatched and how many lines it wrote
  ended,             \* how the last connection ended, "no" while it runs
  call,              \* a call of a pure function: its name and arguments
  result             \* what that call returned

server_vars == <<panicked, playlists, current_playlist, id3_tags,
                 sq_entries, sq_position, last_play_time, now, response,
                 last_request>>

conn_vars == <<connected, command_buffer, sent, received, last_read, ended>>

vars == <<overflow_checks, server_vars, conn_vars, call, result>>

NoRequest == [rpc |-> [kind |-> "none"], selected |-> "none"]

NoCall == [fn |-> "none"]

NoResult == [fn |-> "none"]

NoRead == [dispatched |-> <<>>, written |-> 0]

\* ------------------------------------------------------- try_parse_request

\* The bytes of a connection are modelled as lexemes, each a run of bytes:
\* the line feed (byte 10), the braces of an object, one member of an object
\* ("key":"val" or "key":7; the commas between members are left out), the
\* text [] of an array, text that is no JSON, a byte that is no UTF-8, and a
\* run of READ_BUFFER_SIZE bytes without a line feed.
Lex(t, key, val) == [t |-> t, key |-> key, val |-> val]

LF == Lex("lf", "", "")

OpenBrace == Lex("{", "", "")

CloseBrace == Lex("}", "", "")

ArrayText == Lex("[]", "", "")

Junk == Lex("junk", "", "")

BadUtf8 == Lex("xff", "", "")

Bulk == Lex("bulk", "", "")

StrMember(key, val) == Lex("str", key, val)

NumMember(key) == Lex("num", key, "7")

IsMember(lexeme) == lexeme.t \in {"str", "num"}

\* The size of the read buffer of process_connection.
READ_BUFFER_SIZE == 4096

\* The bytes a lexeme stands for.
ByteLen(lexeme) == IF lexeme = Bulk THEN READ_BUFFER_SIZE ELSE 1

RECURSIVE BytesOf(_)
BytesOf(buffer) ==
  IF buffer = <<>> THEN 0 ELSE ByteLen(Head(buffer)) + BytesOf(Tail(buffer))

\* buffer.iter().position(|byte| *byte == 10): 0-based, -1 for None.
RECURSIVE PositionOfLF(_, _)
PositionOfLF(buffer, from) ==
  IF from >= Len(buffer) THEN -1
  ELSE IF buffer[from + 1] = LF THEN from
  ELSE PositionOfLF(buffer, from + 1)

\* A variant that finds the last line feed of the buffer.
first_newline_last(buffer) ==
  IF \E i \in 1..Len(buffer) : buffer[i] = LF
  THEN (CHOOSE i \in 1..Len(buffer) :
          /\ buffer[i] = LF
          /\ \A j \in (i + 1)..Len(buffer) : buffer[j] # LF) - 1
  ELSE -1

first_newline(buffer) == PositionOfLF(buffer, 0)

\* str::from_utf8 succeeds.
from_utf8_ok(line) == \A i \in 1..Len(line) : line[i] # BadUtf8

\* json::parse: an object is { members }, an array is []; anything else
\* does not parse.
json_parse(line) ==
  IF /\ Len(line) >= 2
     /\ line[1] = OpenBrace
     /\ line[Len(line)] = CloseBrace
     /\ \A i \in 2..(Len(line) - 1) : IsMember(line[i])
  THEN [ok |-> TRUE, is_object |-> TRUE, members |-> SubSeq(line, 2, Len(line) - 1)]
  ELSE IF line = <<ArrayText>>
       THEN [ok |-> TRUE, is_object |-> FALSE, members |-> <<>>]
       ELSE [ok |-> FALSE, is_object |-> FALSE, members |-> <<>>]

\* JsonValue::has_key
has_key(document, key) ==
  \E i \in 1..Len(document.members) : document.members[i].key = key

\* document[key].as_str(): the string, or "None" for a value that is none.
as_str(document, key) ==
  LET m == CHOOSE m \in Range(document.members) : m.key = key
  IN  IF m.t = "str" THEN m.val ELSE "None"

Rpc(kind) == [kind |-> kind]

RpcWithPlaylist(kind, playlist) == [kind |-> kind, playlist |-> playlist]

\* The commands without a parameter, and the request each one is.
PlainCommands ==
  [c \in {"next-track", "list-playlists", "get-playlist", "reload-playlists",
          "shuffle-playlists", "reload-tags"} |->
     CASE c = "next-track" -> "NextTrack"
       [] c = "list-playlists" -> "ListPlaylists"
       [] c = "get-playlist" -> "GetPlaylist"
       [] c = "reload-playlists" -> "ReloadPlaylists"
       [] c = "shuffle-playlists" -> "ShufflePlaylists"
       [] c = "reload-tags" -> "ReloadTags"]

\* (mutant) a missing playlist field is reported as an invalid request.
PlaylistCommand_lenient(document, kind) ==
  IF ~has_key(document, "playlist") THEN Rpc("InvalidRequest")
  ELSE IF as_str(document, "playlist") = "None" THEN Rpc("InvalidParameter")
  ELSE RpcWithPlaylist(kind, as_str(document, "playlist"))

\* The arms of switch-playlist and preview-playlist.
PlaylistCommand(document, kind) ==
  IF ~has_key(document, "playlist") THEN Rpc("InvalidParameter")
  ELSE IF as_str(document, "playlist") = "None" THEN Rpc("InvalidParameter")
  ELSE RpcWithPlaylist(kind, as_str(document, "playlist"))

\* try_parse_request on the line before the first line feed.
ParseLine(first_line) ==
  IF ~from_utf8_ok(first_line) THEN Rpc("InvalidRequest")
  ELSE LET document == json_parse(first_line)
       IN  IF ~document.ok THEN Rpc("InvalidRequest")
           ELSE IF ~document.is_object \/ ~has_key(document, "command")
                THEN Rpc("InvalidRequest")
           ELSE LET command == as_str(document, "command")
                IN  IF command = "None" THEN Rpc("InvalidRequest")
                    ELSE IF command \in DOMAIN PlainCommands
                         THEN Rpc(PlainCommands[command])
                    ELSE IF command = "switch-playlist"
                         THEN PlaylistCommand(document, "SwitchPlaylist")
                    ELSE IF command = "preview-playlist"
                         THEN PlaylistCommand(document, "PreviewPlaylist")
                    ELSE Rpc("UnknownCommand")

\* try_parse_request: None without a line feed, else the request of the
\* first line and the offset after its line feed.
try_parse_request(buffer) ==
  IF first_newline(buffer) = -1 THEN [some |-> FALSE]
  ELSE [some   |-> TRUE,
        rpc    |-> ParseLine(SubSeq(buffer, 1, first_newline(buffer))),
        offset |-> first_newline(buffer) + 1]

\* ------------------------------------------------- the playlist directory

EmptyMap == [x \in {} |-> x]

\* A path is a regular file (Path::is_file) when it is one of Tracks.
is_file(path) == path \in Tracks

\* The ID3 tag a track file carries, "none" when it has no readable tag.
FileTag(path) == IF path \in {"a", "b"} THEN "tag-" \o path ELSE "none"

\* The loop of parse_m3u8_playlist over the lines of a file: blank lines are
\* skipped, an entry that is no file or a duplicate is an error.
RECURSIVE ParseLines(_, _)
ParseLines(lines, playlist) ==
  IF lines = <<>> THEN [ok |-> TRUE, playlist |-> playlist]
  ELSE LET path == Head(lines)
       IN  IF path = "" THEN ParseLines(Tail(lines), playlist)
           ELSE IF ~is_file(path) THEN [ok |-> FALSE, playlist |-> <<>>]
           ELSE IF Contains(playlist, path) THEN [ok |-> FALSE, playlist |-> <<>>]
           ELSE ParseLines(Tail(lines), Append(playlist, path))

\* parse_m3u8_playlist: the entries of the file, or an error.
parse_m3u8_playlist(lines) ==
  LET r == ParseLines(lines, <<>>)
  IN  IF r.ok /\ Len(r.playlist) = 0 THEN [ok |-> FALSE, playlist |-> <<>>] ELSE r

\* A variant for which a directory without a playlist file is no error.
read_m3u8_files_allows_none(dir) ==
  IF ~dir.readable THEN [ok |-> FALSE, playlists |-> EmptyMap]
  ELSE IF \E n \in DOMAIN dir.files : ~parse_m3u8_playlist(dir.files[n]).ok
       THEN [ok |-> FALSE, playlists |-> EmptyMap]
  ELSE [ok |-> TRUE,
        playlists |-> [n \in DOMAIN dir.files |->
                         parse_m3u8_playlist(dir.files[n]).playlist]]

\* read_m3u8_files: every *.m3u8 file of the directory parsed; an unreadable
\* directory, a file that does not parse, or no file at all is an error.
read_m3u8_files(dir) ==
  IF ~dir.readable THEN [ok |-> FALSE, playlists |-> EmptyMap]
  ELSE IF \E n \in DOMAIN dir.files : ~parse_m3u8_playlist(dir.files[n]).ok
       THEN [ok |-> FALSE, playlists |-> EmptyMap]
  ELSE IF DOMAIN dir.files = {} THEN [ok |-> FALSE, playlists |-> EmptyMap]
  ELSE [ok |-> TRUE,
        playlists |-> [n \in DOMAIN dir.files |->
                         parse_m3u8_playlist(dir.files[n]).playlist]]

\* The well-formed playlist files: 1..MaxFileLen tracks of DiskTrackList.
GoodFiles ==
  {SelectSeq(DiskTrackList, LAMBDA t : t \in S) :
     S \in {S \in SUBSET Range(DiskTrackList) :
              Cardinality(S) >= 1 /\ Cardinality(S) <= MaxFileLen}}

\* Malformed ones: a duplicate entry, a missing track file, no entry.
BadFiles == {<<"a", "a">>, <<"missing">>, <<"">>}

\* What a playlist file can hold: p1.m3u8 any of the files above, p2.m3u8
\* (when there) the one track c.
FilesOf(name) == IF name = "p1" THEN GoodFiles \cup BadFiles ELSE {<<"c">>}

\* What can be on disk when the directory is read.
Directories ==
  {[readable |-> FALSE, files |-> EmptyMap]} \cup
  {[readable |-> TRUE, files |-> f] :
     f \in UNION {{f \in [D -> GoodFiles \cup BadFiles \cup {<<"c">>}] :
                     \A n \in D : f[n] \in FilesOf(n)} : D \in SUBSET Names}}

\* read_m3u8_files of each of them.
ReadResult == [dir \in Directories |-> read_m3u8_files(dir)]

\* ----------------------------------------------------------- PlaylistQueue

\* A variant that reorders the songs and keeps the position.
PlaylistShuffle_keeps_position(pl) ==
  {[position |-> pl.position, songs |-> s] : s \in shuffle(pl.songs)}

\* Playlist::shuffle
PlaylistShuffle(pl) == {[position |-> 0, songs |-> s] : s \in shuffle(pl.songs)}

\* A variant that keeps the tags of the songs of the playlist only.
update_id3_directory_collects(pl, directory) ==
  LET tagged == {song \in Range(pl.songs) :
                   song \in DOMAIN directory \/ FileTag(song) # "none"}
  IN  [path \in tagged |->
         IF path \in DOMAIN directory THEN directory[path] ELSE FileTag(path)]

\* Playlist::update_id3_directory: a tag is read for every song of the
\* playlist that has none cached and whose file has a readable one.
update_id3_directory(pl, directory) ==
  LET fresh == {song \in Range(pl.songs) :
                  song \notin DOMAIN directory /\ FileTag(song) # "none"}
  IN  [path \in DOMAIN directory \cup fresh |->
         IF path \in DOMAIN directory THEN directory[path] ELSE FileTag(path)]

RECURSIVE UpdateAll(_, _, _)
UpdateAll(pls, names, directory) ==
  IF names = {} THEN directory
  ELSE LET n == CHOOSE n \in names : TRUE
       IN  UpdateAll(pls, names \ {n}, update_id3_directory(pls[n], directory))

\* for playlist in self.playlists.values_mut() { playlist.shuffle(rng) }:
\* the registries the loop can leave for the playlists named.
RECURSIVE ShuffleEach(_, _)
ShuffleEach(pls, names) ==
  IF names = {} THEN {EmptyMap}
  ELSE LET n == CHOOSE n \in names : TRUE
       IN  {(n :> pl) @@ rest :
              pl \in PlaylistShuffle(pls[n]), rest \in ShuffleEach(pls, names \ {n})}

\* PlaylistQueue::shuffle_all: what it can leave.
shuffle_all(pls) == ShuffleEach(pls, DOMAIN pls)

\* A variant that builds every playlist anew from the file.
MergeOne_rebuilds(pls, disk_playlist, disk_songs, checks) ==
  {[songs |-> pl.songs, position |-> pl.position, panic |-> FALSE] :
     pl \in PlaylistShuffle(PlaylistNew(disk_songs))}

\* One pass of the loop of merge_with: a known playlist is diffed, the added
\* songs shuffled and merged; a new one is created and shuffled.
MergeOne(pls, disk_playlist, disk_songs, checks) ==
  IF disk_playlist \in DOMAIN pls
  THEN LET d == diff_playlist(pls[disk_playlist], disk_songs)
       IN  {merge_songs(pls[disk_playlist], to_add, d.to_remove, checks) :
              to_add \in shuffle(d.to_add)}
  ELSE {[songs |-> pl.songs, position |-> pl.position, panic |-> FALSE] :
          pl \in PlaylistShuffle(PlaylistNew(disk_songs))}

\* A variant that drops no playlist.
to_remove_playlists_none(pls, disk) == {}

\* The playlists merge_with drops: those the directory no longer has, and
\* the empty ones.
to_remove_playlists(pls, disk) ==
  {n \in DOMAIN pls : n \notin DOMAIN disk \/ Len(pls[n].songs) = 0}

\* (mutant) the selection is left as it is.
SelectionAfterMerge_stale(pls, selected) == {selected}

\* The end of merge_with: a selection that is no longer a key becomes the
\* first key of the map's iteration, which can be any key.
SelectionAfterMerge(pls, selected) ==
  IF selected \in DOMAIN pls THEN {selected} ELSE DOMAIN pls

\* PlaylistQueue::merge_with: every state it can leave, as
\* [panic, playlists, current_playlist, id3_tags].
merge_with(pls, selected, tags, disk, checks) ==
  LET todo == {n \in DOMAIN disk : Len(disk[n]) # 0}
      one  == [n \in todo |-> MergeOne(pls, n, disk[n], checks)]
      U    == UNION {one[n] : n \in todo}
      runs == {f \in [todo -> U] : \A n \in todo : f[n] \in one[n]}
  IN  IF DOMAIN disk = {}
      THEN {[panic |-> FALSE, playlists |-> pls, current_playlist |-> selected,
             id3_tags |-> tags]}
      ELSE UNION {
        IF \E n \in todo : f[n].panic
        THEN {[panic |-> TRUE, playlists |-> pls, current_playlist |-> selected,
               id3_tags |-> tags]}
        ELSE LET merged == [n \in DOMAIN pls \cup todo |->
                              IF n \in todo
                              THEN [position |-> f[n].position, songs |-> f[n].songs]
                              ELSE pls[n]]
                 kept   == DOMAIN merged \ to_remove_playlists(merged, disk)
                 after  == [n \in kept |-> merged[n]]
             IN  IF kept = {}
                 THEN {[panic |-> TRUE, playlists |-> pls,
                        current_playlist |-> selected, id3_tags |-> tags]}
                 ELSE {[panic |-> FALSE, playlists |-> after, current_playlist |-> c,
                        id3_tags |-> UpdateAll(merged, todo, tags)] :
                         c \in SelectionAfterMerge(after, selected)}
        : f \in runs}

\* ------------------------------------------------------------ SpecialQueue

\* SpecialQueue.entries with the clock and the weather enabled.
SpecialEntries == <<"TimeGenerator", "File">>

CLOCK_MP3_FILE == "clock-stereo.mp3"

WEATHER_MP3_FILE == "weather-stereo.mp3"

\* A variant that does not look at the time.
is_special_pending_always(entries, last, time) == Len(entries) # 0

\* A variant that waits for more than the interval.
is_special_pending_strict(entries, last, time) ==
  IF Len(entries) = 0 THEN FALSE
  ELSE IF time < last THEN FALSE
  ELSE time - last > Interval

\* SpecialQueue::is_special_pending
is_special_pending(entries, last, time) ==
  IF Len(entries) = 0 THEN FALSE
  ELSE IF time < last THEN FALSE
  ELSE time - last >= Interval

\* A variant that returns the clock file whether or not it was generated.
special_current_always(entries, position, generated) ==
  IF Len(entries) = 0 THEN "None"
  ELSE IF entries[position + 1] = "TimeGenerator" THEN CLOCK_MP3_FILE
       ELSE WEATHER_MP3_FILE

\* SpecialQueue::current: the path of the entry, "None" when generating the
\* clock announcement failed.
special_current(entries, position, generated) ==
  IF Len(entries) = 0 THEN "None"
  ELSE IF entries[position + 1] = "TimeGenerator"
       THEN (IF generated THEN CLOCK_MP3_FILE ELSE "None")
       ELSE WEATHER_MP3_FILE

\* A variant that stays on the entry.
special_next_stays(entries, position) == position

\* SpecialQueue::next
special_next(entries, position) == (position + 1) % Len(entries)

\* --------------------------------------------------------- process_request

Status(kind) == [kind |-> kind]

Registry == <<playlists, current_playlist, id3_tags>>

SpecialState == <<sq_entries, sq_position, last_play_time>>

\* A variant that advances every playlist with the selected one.
NextTrack_advances_all(generated, exists) ==
  LET special == special_current(sq_entries, sq_position, generated)
  IN  IF /\ is_special_pending(sq_entries, last_play_time, now)
         /\ special # "None"
         /\ exists
      THEN /\ sq_position' = special_next(sq_entries, sq_position)
           /\ last_play_time' = now
           /\ response' = [kind |-> "Track", path |-> special]
           /\ UNCHANGED <<panicked, Registry, sq_entries>>
      ELSE IF /\ current_playlist \in DOMAIN playlists
              /\ CurrentInRange(playlists[current_playlist])
           THEN /\ response' = [kind |-> "Track",
                                path |-> current(playlists[current_playlist])]
                /\ playlists' = [n \in DOMAIN playlists |-> next(playlists[n])]
                /\ UNCHANGED <<panicked, current_playlist, id3_tags, SpecialState>>
           ELSE /\ panicked' = TRUE
                /\ UNCHANGED <<Registry, SpecialState, response>>

\* NextTrack: a pending special entry that resolves to an existing file is
\* served; otherwise the selected playlist's current song, and the playlist
\* advances.  generated: the clock announcement could be generated;
\* exists: the special file is there.
NextTrack(generated, exists) ==
  LET special == special_current(sq_entries, sq_position, generated)
  IN  IF /\ is_special_pending(sq_entries, last_play_time, now)
         /\ special # "None"
         /\ exists
      THEN /\ sq_position' = special_next(sq_entries, sq_position)
           /\ last_play_time' = now
           /\ response' = [kind |-> "Track", path |-> special]
           /\ UNCHANGED <<panicked, Registry, sq_entries>>
      ELSE IF /\ current_playlist \in DOMAIN playlists
              /\ CurrentInRange(playlists[current_playlist])
           THEN /\ response' = [kind |-> "Track",
                                path |-> current(playlists[current_playlist])]
                /\ playlists' = [playlists EXCEPT ![current_playlist] = next(@)]
                /\ UNCHANGED <<panicked, current_playlist, id3_tags, SpecialState>>
           ELSE /\ panicked' = TRUE
                /\ UNCHANGED <<Registry, SpecialState, response>>

\* A variant that lists the selected playlist only.
ListPlaylists_selected_only ==
  /\ response' = [kind |-> "Playlists", playlists |-> {current_playlist}]
  /\ UNCHANGED <<panicked, Registry, SpecialState>>

ListPlaylists ==
  /\ response' = [kind |-> "Playlists", playlists |-> DOMAIN playlists]
  /\ UNCHANGED <<panicked, Registry, SpecialState>>

GetPlaylist ==
  /\ response' = [kind |-> "Playlist", playlist |-> current_playlist]
  /\ UNCHANGED <<panicked, Registry, SpecialState>>

\* A variant that selects the name without looking it up.
SwitchPlaylist_unchecked(target) ==
  /\ current_playlist' = target
  /\ response' = Status("Ok")
  /\ UNCHANGED <<panicked, playlists, id3_tags, SpecialState>>

SwitchPlaylist(target) ==
  IF target \in DOMAIN playlists
  THEN /\ current_playlist' = target
       /\ response' = Status("Ok")
       /\ UNCHANGED <<panicked, playlists, id3_tags, SpecialState>>
  ELSE /\ response' = Status("NoSuchPlaylist")
       /\ UNCHANGED <<panicked, Registry, SpecialState>>

\* A variant that lists no track a second time.
RECURSIVE PreviewEntries_once(_, _, _)
PreviewEntries_once(pl, x, tags) ==
  IF x >= 5 \/ x >= Len(pl.songs) THEN <<>>
  ELSE <<[offset |-> x, file |-> current(pl),
          id3 |-> IF current(pl) \in DOMAIN tags THEN tags[current(pl)] ELSE "none"]>>
       \o PreviewEntries_once(next(pl), x + 1, tags)

\* The loop of PreviewPlaylist from scratch cursor pl: entries x..4.
RECURSIVE PreviewEntries(_, _, _)
PreviewEntries(pl, x, tags) ==
  IF x >= 5 THEN <<>>
  ELSE <<[offset |-> x, file |-> current(pl),
          id3 |-> IF current(pl) \in DOMAIN tags THEN tags[current(pl)] ELSE "none"]>>
       \o PreviewEntries(next(pl), x + 1, tags)

RECURSIVE Advance(_, _)
Advance(pl, times) == IF times = 0 THEN pl ELSE Advance(next(pl), times - 1)

PreviewPlaylist(playlist) ==
  IF playlist \in DOMAIN playlists
  THEN IF CurrentInRange(playlists[playlist])
       THEN /\ response' = [kind |-> "Tracks",
                            tracks |-> PreviewEntries(playlists[playlist], 0, id3_tags)]
            /\ playlists' = [playlists EXCEPT ![playlist] =
                               seek(Advance(@, 5), playlists[playlist].position)]
            /\ UNCHANGED <<panicked, current_playlist, id3_tags, SpecialState>>
       ELSE /\ panicked' = TRUE
            /\ UNCHANGED <<Registry, SpecialState, response>>
  ELSE /\ response' = Status("NoSuchPlaylist")
       /\ UNCHANGED <<panicked, Registry, SpecialState>>

ShufflePlaylists ==
  /\ playlists' \in shuffle_all(playlists)
  /\ response' = Status("Ok")
  /\ UNCHANGED <<panicked, current_playlist, id3_tags, SpecialState>>

\* A variant that does not clear the cache first.
ReloadTags_keeps_cache ==
  /\ id3_tags' = UpdateAll(playlists, DOMAIN playlists, id3_tags)
  /\ response' = Status("Ok")
  /\ UNCHANGED <<panicked, playlists, current_playlist, SpecialState>>

ReloadTags ==
  /\ id3_tags' = UpdateAll(playlists, DOMAIN playlists, EmptyMap)
  /\ response' = Status("Ok")
  /\ UNCHANGED <<panicked, playlists, current_playlist, SpecialState>>

\* ReloadPlaylists with dir on disk.
ReloadPlaylists(dir) ==
  LET raw_playlists == ReadResult[dir]
  IN  IF ~raw_playlists.ok
      THEN /\ response' = Status("NoPlaylistsAvailable")
           /\ UNCHANGED <<panicked, Registry, SpecialState>>
      ELSE \E m \in merge_with(playlists, current_playlist, id3_tags,
                               raw_playlists.playlists, overflow_checks) :
             /\ panicked' = m.panic
             /\ playlists' = m.playlists
             /\ current_playlist' = m.current_playlist
             /\ id3_tags' = m.id3_tags
             /\ response' = IF m.panic THEN response ELSE Status("Ok")
             /\ UNCHANGED SpecialState

InvalidRequest ==
  /\ response' = Status("InvalidRequest")
  /\ UNCHANGED <<panicked, Registry, SpecialState>>

UnknownCommand ==
  /\ response' = Status("UnknownCommand")
  /\ UNCHANGED <<panicked, Registry, SpecialState>>

\* A variant that answers as for a line that is no request.
InvalidParameter_as_invalid_request ==
  /\ response' = Status("InvalidRequest")
  /\ UNCHANGED <<panicked, Registry, SpecialState>>

InvalidParameter ==
  /\ response' = Status("InvalidParameter")
  /\ UNCHANGED <<panicked, Registry, SpecialState>>

\* process_request: rpc is the parsed request; env what the request finds
\* outside the process (the clock announcement, the special file, the
\* playlist directory).  The clock is read, not set.
process_request(rpc, env) ==
  /\ now' = now
  /\ last_request' = [rpc |-> rpc, selected |-> current_playlist]
  /\ CASE rpc.kind = "NextTrack" -> NextTrack(env.generated, env.exists)
       [] rpc.kind = "ListPlaylists" -> ListPlaylists
       [] rpc.kind = "GetPlaylist" -> GetPlaylist
       [] rpc.kind = "SwitchPlaylist" -> SwitchPlaylist(rpc.playlist)
       [] rpc.kind = "PreviewPlaylist" -> PreviewPlaylist(rpc.playlist)
       [] rpc.kind = "ShufflePlaylists" -> ShufflePlaylists
       [] rpc.kind = "ReloadTags" -> ReloadTags
       [] rpc.kind = "ReloadPlaylists" -> ReloadPlaylists(env.dir)
       [] rpc.kind = "InvalidRequest" -> InvalidRequest
       [] rpc.kind = "UnknownCommand" -> UnknownCommand
       [] rpc.kind = "InvalidParameter" -> InvalidParameter

\* ------------------------------------------------------------ server_worker

\* The playlist names a client asks for: the names of the directory and one
\* that is never there.
AskedNames == Names \cup {"nope"}

NoEnv == [generated |-> TRUE, exists |-> TRUE,
          dir |-> [readable |-> FALSE, files |-> EmptyMap]]

\* server_worker up to its accept loop: the directory is read (the server
\* terminates when that fails), every playlist shuffled, the first key
\* selected, the tags read, the special queue started at the current time.
Init ==
  /\ overflow_checks \in BOOLEAN
  /\ panicked = FALSE
  /\ \E dir \in Directories :
       LET r == ReadResult[dir]
       IN  /\ r.ok
           /\ playlists \in shuffle_all([n \in DOMAIN r.playlists |->
                                           PlaylistNew(r.playlists[n])])
  /\ current_playlist \in DOMAIN playlists
  /\ id3_tags = UpdateAll(playlists, DOMAIN playlists, EmptyMap)
  /\ sq_entries = SpecialEntries
  /\ sq_position = 0
  /\ now = 0
  /\ last_play_time = now
  /\ response = [kind |-> "none"]
  /\ last_request = NoRequest
  /\ connected = FALSE
  /\ command_buffer = <<>>
  /\ sent = <<>>
  /\ received = <<>>
  /\ last_read = NoRead
  /\ ended = "no"
  /\ call = NoCall
  /\ result = NoResult

\* What a request leaves alone outside the server's state.
RequestFrame == UNCHANGED <<overflow_checks, conn_vars, call, result>>

\* One request processed by the running server, per kind of request.
RpcNextTrack ==
  /\ ~panicked
  /\ \E generated, exists \in BOOLEAN :
        process_request([kind |-> "NextTrack"],
                        [NoEnv EXCEPT !.generated = generated, !.exists = exists])
  /\ RequestFrame

RpcListPlaylists ==
  /\ ~panicked
  /\ process_request([kind |-> "ListPlaylists"], NoEnv)
  /\ RequestFrame

RpcGetPlaylist ==
  /\ ~panicked
  /\ process_request([kind |-> "GetPlaylist"], NoEnv)
  /\ RequestFrame

RpcSwitchPlaylist ==
  /\ ~panicked
  /\ \E target \in AskedNames :
        process_request([kind |-> "SwitchPlaylist", playlist |-> target], NoEnv)
  /\ RequestFrame

RpcPreviewPlaylist ==
  /\ ~panicked
  /\ \E target \in AskedNames :
        process_request([kind |-> "PreviewPlaylist", playlist |-> target], NoEnv)
  /\ RequestFrame

RpcShufflePlaylists ==
  /\ ~panicked
  /\ process_request([kind |-> "ShufflePlaylists"], NoEnv)
  /\ RequestFrame

RpcReloadTags ==
  /\ ~panicked
  /\ process_request([kind |-> "ReloadTags"], NoEnv)
  /\ RequestFrame

RpcReloadPlaylists ==
  /\ ~panicked
  /\ \E dir \in Directories :
        process_request([kind |-> "ReloadPlaylists"], [NoEnv EXCEPT !.dir = dir])
  /\ RequestFrame

RpcInvalidRequest ==
  /\ ~panicked
  /\ process_request([kind |-> "InvalidRequest"], NoEnv)
  /\ RequestFrame

RpcUnknownCommand ==
  /\ ~panicked
  /\ process_request([kind |-> "UnknownCommand"], NoEnv)
  /\ RequestFrame

RpcInvalidParameter ==
  /\ ~panicked
  /\ process_request([kind |-> "InvalidParameter"], NoEnv)
  /\ RequestFrame

\* Time passes.
Tick ==
  /\ now < MaxTime
  /\ now' = now + 1
  /\ UNCHANGED <<overflow_checks, panicked, Registry, SpecialState, response,
                 last_request, conn_vars, call, result>>

Next ==
  \/ RpcNextTrack
  \/ RpcListPlaylists
  \/ RpcGetPlaylist
  \/ RpcSwitchPlaylist
  \/ RpcPreviewPlaylist
  \/ RpcShufflePlaylists
  \/ RpcReloadTags
  \/ RpcReloadPlaylists
  \/ RpcInvalidRequest
  \/ RpcUnknownCommand
  \/ RpcInvalidParameter
  \/ Tick

Spec == Init /\ [][Next]_vars

\* -------------------------------------------------------- send_response

\* The line send_response writes for a response: its one key and the value.
send_response(r) ==
  CASE r.kind = "Ok" -> [key |-> "status", value |-> "ok"]
    [] r.kind = "Track" -> [key |-> "track", value |-> r.path]
    [] r.kind = "Tracks" -> [key |-> "tracks", value |-> r.tracks]
    [] r.kind = "Playlists" -> [key |-> "playlists", value |-> r.playlists]
    [] r.kind = "Playlist" -> [key |-> "playlist", value |-> r.playlist]
    [] r.kind = "NoSuchPlaylist" -> [key |-> "status", value |-> "no-such-playlist"]
    [] r.kind = "NoPlaylistsAvailable" ->
         [key |-> "status", value |-> "no-playlists-available"]
    [] r.kind = "InvalidRequest" -> [key |-> "status", value |-> "invalid-request"]
    [] r.kind = "UnknownCommand" -> [key |-> "status", value |-> "unknown-command"]
    [] r.kind = "InvalidParameter" ->
         [key |-> "status", value |-> "invalid-parameter"]

\* ----------------------------------------------------- process_connection

\* A request line with its line feed.
Line(members) == <<OpenBrace>> \o members \o <<CloseBrace, LF>>

GetPlaylistLine == Line(<<StrMember("command", "get-playlist")>>)

NextTrackRequest == Line(<<StrMember("command", "next-track")>>)

ReloadPlaylistsLine == Line(<<StrMember("command", "reload-playlists")>>)

\* What one read of the socket returns: whole lines (served, malformed,
\* unknown, lacking a parameter), two lines at once, the halves of a line,
\* bytes without a line feed up to the size of the read buffer.
Chunks ==
  {GetPlaylistLine, NextTrackRequest, ReloadPlaylistsLine,
   <<Junk, LF>>,
   Line(<<StrMember("command", "bogus")>>),
   Line(<<StrMember("command", "switch-playlist")>>),
   Line(<<StrMember("command", "switch-playlist"), NumMember("playlist")>>),
   GetPlaylistLine \o NextTrackRequest,
   <<OpenBrace, StrMember("command", "next-track")>>,
   <<CloseBrace, LF>>,
   <<Bulk>>}

\* The directories a reload finds while clients are served: unreadable, or
\* every file of one line.
ShortDirectories ==
  {dir \in Directories : \A n \in DOMAIN dir.files : Len(dir.files[n]) <= 1}

\* What a request finds outside the process.
EnvsFor(rpc) ==
  CASE rpc.kind = "NextTrack" ->
         {[NoEnv EXCEPT !.generated = g, !.exists = e] : g, e \in BOOLEAN}
    [] rpc.kind = "ReloadPlaylists" ->
         {[NoEnv EXCEPT !.dir = dir] : dir \in ShortDirectories}
    [] OTHER -> {NoEnv}

\* A variant that keeps the bytes of the last read only.
extend_from_slice_replaces(buffer, chunk) == chunk

\* command_buffer.extend_from_slice(&read_buffer[..size])
extend_from_slice(buffer, chunk) == buffer \o chunk

\* A variant of the cap that lets the buffer grow to two reads.
buffer_too_large_after_two_reads(buffer) == BytesOf(buffer) > 2 * READ_BUFFER_SIZE

\* command_buffer.len() > 4096
buffer_too_large(buffer) == BytesOf(buffer) > READ_BUFFER_SIZE

\* A variant that takes the next client while the handler of the current
\* one is still running.
Accept_while_serving ==
  /\ ~panicked
  /\ connected' = TRUE
  /\ command_buffer' = <<>>
  /\ sent' = <<>>
  /\ received' = <<>>
  /\ last_read' = NoRead
  /\ ended' = "no"
  /\ UNCHANGED <<overflow_checks, server_vars, call, result>>

\* server.incoming() yields a client: process_connection starts with an
\* empty command_buffer.
Accept ==
  /\ ~panicked
  /\ ~connected
  /\ connected' = TRUE
  /\ command_buffer' = <<>>
  /\ sent' = <<>>
  /\ received' = <<>>
  /\ last_read' = NoRead
  /\ ended' = "no"
  /\ UNCHANGED <<overflow_checks, server_vars, call, result>>

\* One turn of the loop of process_connection on Ok(size), size > 0: the
\* bytes are appended, try_parse_request is called once; a request is
\* drained from the buffer, processed and answered (write_ok: the write
\* succeeded), and without one the buffer is checked against the cap.
Read ==
  /\ ~panicked
  /\ connected
  /\ \E chunk \in Chunks :
       /\ BytesOf(chunk) <= READ_BUFFER_SIZE
       /\ Len(received) < MaxReads
       /\ received' = Append(received, chunk)
       /\ LET buffer == extend_from_slice(command_buffer, chunk)
              parsed == try_parse_request(buffer)
          IN  IF parsed.some
              THEN /\ command_buffer' = SubSeq(buffer, parsed.offset + 1, Len(buffer))
                   /\ \E env \in EnvsFor(parsed.rpc) : process_request(parsed.rpc, env)
                   /\ \E write_ok \in BOOLEAN :
                        IF panicked'
                        THEN /\ sent' = sent
                             /\ connected' = FALSE
                             /\ ended' = "panic"
                             /\ last_read' = [dispatched |-> <<parsed.rpc>>,
                                              written |-> 0]
                        ELSE IF write_ok
                        THEN /\ sent' = Append(sent, send_response(response'))
                             /\ connected' = TRUE
                             /\ ended' = "no"
                             /\ last_read' = [dispatched |-> <<parsed.rpc>>,
                                              written |-> 1]
                        ELSE /\ sent' = sent
                             /\ connected' = FALSE
                             /\ ended' = "write_error"
                             /\ last_read' = [dispatched |-> <<parsed.rpc>>,
                                              written |-> 0]
              ELSE /\ command_buffer' = buffer
                   /\ sent' = sent
                   /\ last_read' = [dispatched |-> <<>>, written |-> 0]
                   /\ connected' = ~buffer_too_large(buffer)
                   /\ ended' = IF buffer_too_large(buffer)
                               THEN "too_large" ELSE "no"
                   /\ UNCHANGED server_vars
  /\ UNCHANGED <<overflow_checks, call, result>>

\* client.read returns Ok(0): the loop ends.
ReadEof ==
  /\ ~panicked
  /\ connected
  /\ connected' = FALSE
  /\ ended' = "eof"
  /\ UNCHANGED <<overflow_checks, server_vars, command_buffer, sent, received,
                 last_read, call, result>>

\* A variant in which a failed read takes the server down.
ReadError_stops_server ==
  /\ ~panicked
  /\ connected
  /\ connected' = FALSE
  /\ ended' = "error"
  /\ panicked' = TRUE
  /\ UNCHANGED <<overflow_checks, Registry, SpecialState, now, response,
                 last_request, command_buffer, sent, received, last_read,
                 call, result>>

\* client.read returns Err (the 5 second timeout among them): the loop ends.
ReadError ==
  /\ ~panicked
  /\ connected
  /\ connected' = FALSE
  /\ ended' = "error"
  /\ UNCHANGED <<overflow_checks, server_vars, command_buffer, sent, received,
                 last_read, call, result>>

\* server_worker serving its clients one after the other.
NextConn ==
  \/ Accept
  \/ Read
  \/ ReadEof
  \/ ReadError

SpecConn == Init /\ [][NextConn]_vars

\* ------------------------------------------- the functions, called directly

\* Every playlist merge_songs is tried on: a non-empty duplicate-free list
\* and a position inside it.
InputPlaylists ==
  {[position |-> p, songs |-> s] :
     <<s, p>> \in {<<s, p>> \in DistinctSeqs(Tracks, 1, MaxLen) \X (0..(MaxLen - 1)) :
                     p < Len(s)}}

MergeCalls ==
  [fn : {"merge_songs"}, pl : InputPlaylists,
   to_add : DistinctSeqs(Tracks, 0, MaxDelta),
   to_remove : DistinctSeqs(Tracks, 0, MaxDelta)]

\* diff_playlist against a target, merge_songs with what it returned, and
\* diff_playlist against the same target again.
DiffMergeCalls ==
  [fn : {"diff_merge"}, pl : InputPlaylists,
   playlist : DistinctSeqs(Tracks, 0, MaxLen)]

\* A server that is not running any request: the pure-function
\* specifications leave it alone.
ServerAtRest ==
  /\ panicked = FALSE
  /\ playlists = [n \in {"p1"} |-> PlaylistNew(<<"a">>)]
  /\ current_playlist = "p1"
  /\ id3_tags = EmptyMap
  /\ sq_entries = SpecialEntries
  /\ sq_position = 0
  /\ last_play_time = 0
  /\ now = 0
  /\ response = [kind |-> "none"]
  /\ last_request = NoRequest
  /\ connected = FALSE
  /\ command_buffer = <<>>
  /\ sent = <<>>
  /\ received = <<>>
  /\ last_read = NoRead
  /\ ended = "no"

InitMerge ==
  /\ overflow_checks \in BOOLEAN
  /\ ServerAtRest
  /\ call \in MergeCalls \cup DiffMergeCalls
  /\ result = NoResult

CallMergeSongs ==
  /\ call.fn = "merge_songs"
  /\ result = NoResult
  /\ result' = [fn |-> "merge_songs"] @@
               merge_songs(call.pl, call.to_add, call.to_remove, overflow_checks)
  /\ UNCHANGED <<overflow_checks, server_vars, conn_vars, call>>

CallDiffMerge ==
  /\ call.fn = "diff_merge"
  /\ result = NoResult
  /\ LET d == diff_playlist(call.pl, call.playlist)
         m == merge_songs(call.pl, d.to_add, d.to_remove, overflow_checks)
     IN  result' = [fn |-> "diff_merge", diff |-> d, merged |-> m,
                    rediff |-> IF m.panic THEN d
                               ELSE diff_playlist(m, call.playlist)]
  /\ UNCHANGED <<overflow_checks, server_vars, conn_vars, call>>

NextMerge == CallMergeSongs \/ CallDiffMerge

SpecMerge == InitMerge /\ [][NextMerge]_vars

\* ---------------------------------------- try_parse_request, called directly

CommandNames ==
  {"next-track", "list-playlists", "get-playlist", "reload-playlists",
   "shuffle-playlists", "reload-tags", "switch-playlist", "preview-playlist"}

\* The members a request line is built from: a command (a recognized name,
\* another string, a number), a playlist (a string, a number), another key.
InputMembers ==
  {StrMember("command", c) : c \in CommandNames \cup {"bogus"}}
  \cup {NumMember("command"), StrMember("playlist", "p1"), NumMember("playlist"),
        StrMember("extra", "x")}

\* Up to MaxMembers of them, no key twice.
InputBodies ==
  UNION {{b \in [1..k -> InputMembers] :
            \A i, j \in 1..k : b[i].key = b[j].key => i = j} : k \in 0..MaxMembers}

\* Request lines, well formed and not: the braces there or missing, bad
\* bytes in front, an array, plain text.
InputLines ==
  {pre \o body \o post :
     pre \in {<<>>, <<OpenBrace>>, <<BadUtf8, OpenBrace>>, <<Junk, OpenBrace>>},
     body \in InputBodies,
     post \in {<<>>, <<CloseBrace>>}}
  \cup {<<ArrayText>>, <<Junk>>}

\* Buffers: a line without its line feed yet, or a complete line and what
\* follows it.
InputBuffers ==
  InputLines \cup
  {line \o <<LF>> \o tail :
     line \in InputLines,
     tail \in {<<>>, <<OpenBrace>>, <<LF>>, NextTrackRequest}}

InitParse ==
  /\ overflow_checks = FALSE
  /\ ServerAtRest
  /\ call \in {[fn |-> "try_parse_request", buffer |-> b] : b \in InputBuffers}
  /\ result = NoResult

\* try_parse_request, and command_buffer.drain(..offset) after it.
CallTryParseRequest ==
  /\ call.fn = "try_parse_request"
  /\ result = NoResult
  /\ LET r == try_parse_request(call.buffer)
     IN  result' = IF r.some
                   THEN [fn |-> "try_parse_request", some |-> TRUE, rpc |-> r.rpc,
                         offset |-> r.offset,
                         rest |-> SubSeq(call.buffer, r.offset + 1, Len(call.buffer))]
                   ELSE [fn |-> "try_parse_request", some |-> FALSE,
                         rest |-> call.buffer]
  /\ UNCHANGED <<overflow_checks, server_vars, conn_vars, call>>

NextParse == CallTryParseRequest

SpecParse == InitParse /\ [][NextParse]_vars

\* ------------------------------------ reload-playlists, processed directly

\* The registries a reload is processed on: p1 any playlist, p2 (when
\* there) the one track c, either of them selected.
InputRegistries ==
  {[playlists |-> pls, current_playlist |-> c] :
     <<pls, c>> \in
       {<<pls, c>> \in
          (UNION {[D -> InputPlaylists] : D \in SUBSET Names \ {{}}}) \X Names :
            /\ c \in DOMAIN pls
            /\ "p2" \in DOMAIN pls => pls["p2"] = PlaylistNew(<<"c">>)}}

ReloadCalls ==
  {[fn |-> "reload_playlists", dir |-> dir,
    playlists |-> r.playlists, current_playlist |-> r.current_playlist,
    id3_tags |-> UpdateAll(r.playlists, DOMAIN r.playlists, EmptyMap)] :
     r \in InputRegistries, dir \in Directories}

\* A reload-tags request: every registry of the bounds, the cache holding
\* tags read earlier for any of the tracks, tracks dropped since among them.
ReloadTagsCalls ==
  {[fn |-> "reload_tags",
    playlists |-> r.playlists, current_playlist |-> r.current_playlist,
    id3_tags |-> [path \in cached |-> "old-" \o path]] :
     r \in InputRegistries, cached \in SUBSET Range(DiskTrackList)}

InitReload ==
  /\ overflow_checks \in BOOLEAN
  /\ call \in ReloadCalls \cup ReloadTagsCalls
  /\ result = NoResult
  /\ panicked = FALSE
  /\ playlists = call.playlists
  /\ current_playlist = call.current_playlist
  /\ id3_tags = call.id3_tags
  /\ sq_entries = SpecialEntries
  /\ sq_position = 0
  /\ last_play_time = 0
  /\ now = 0
  /\ response = [kind |-> "none"]
  /\ last_request = NoRequest
  /\ connected = FALSE
  /\ command_buffer = <<>>
  /\ sent = <<>>
  /\ received = <<>>
  /\ last_read = NoRead
  /\ ended = "no"

\* process_request(ReloadPlaylists) with call.dir on disk.
CallReloadPlaylists ==
  /\ call.fn = "reload_playlists"
  /\ result = NoResult
  /\ process_request(Rpc("ReloadPlaylists"), [NoEnv EXCEPT !.dir = call.dir])
  /\ result' = [fn |-> "reload_playlists"]
  /\ UNCHANGED <<overflow_checks, conn_vars, call>>

\* process_request(ReloadTags)
CallReloadTags ==
  /\ call.fn = "reload_tags"
  /\ result = NoResult
  /\ process_request(Rpc("ReloadTags"), NoEnv)
  /\ result' = [fn |-> "reload_tags"]
  /\ UNCHANGED <<overflow_checks, conn_vars, call>>

NextReload == CallReloadPlaylists \/ CallReloadTags

SpecReload == InitReload /\ [][NextReload]_vars

\* ------------------------------------------ next-track, processed directly

\* The entries of the special queue: the clock and the weather announcement,
\* each enabled or not (service_config.clock_enabled, weather_enabled).
InputEntries == {<<>>, <<"TimeGenerator">>, <<"File">>, SpecialEntries}

\* A playlist whose position a merge left at its length.
InputPlaylistsAtEnd ==
  {[position |-> Len(s), songs |-> s] : s \in DistinctSeqs(Tracks, 1, MaxLen)}

\* A next-track request: the playlist selected, the special queue and its
\* clock (which may have been set back since the last entry was served),
\* and what the request finds on disk.
NextTrackCalls ==
  {[fn |-> "next_track", pl |-> pl, entries |-> e[1], position |-> e[2],
    last_play_time |-> last, now |-> time, generated |-> g, exists |-> x] :
     pl \in InputPlaylists \cup InputPlaylistsAtEnd,
     e \in {e \in InputEntries \X (0..1) : e[2] < Len(e[1]) \/ e[2] = 0},
     last \in 0..MaxTime, time \in 0..MaxTime,
     g \in BOOLEAN, x \in BOOLEAN}

InitNextTrack ==
  /\ overflow_checks \in BOOLEAN
  /\ call \in NextTrackCalls
  /\ result = NoResult
  /\ panicked = FALSE
  /\ playlists = [n \in {"p1"} |-> call.pl]
  /\ current_playlist = "p1"
  /\ id3_tags = EmptyMap
  /\ sq_entries = call.entries
  /\ sq_position = call.position
  /\ last_play_time = call.last_play_time
  /\ now = call.now
  /\ response = [kind |-> "none"]
  /\ last_request = NoRequest
  /\ connected = FALSE
  /\ command_buffer = <<>>
  /\ sent = <<>>
  /\ received = <<>>
  /\ last_read = NoRead
  /\ ended = "no"

\* process_request(NextTrack)
CallNextTrack ==
  /\ call.fn = "next_track"
  /\ result = NoResult
  /\ process_request(Rpc("NextTrack"),
                     [NoEnv EXCEPT !.generated = call.generated,
                                   !.exists = call.exists])
  /\ result' = [fn |-> "next_track"]
  /\ UNCHANGED <<overflow_checks, conn_vars, call>>

NextNextTrack == CallNextTrack

SpecNextTrack == InitNextTrack /\ [][NextNextTrack]_vars

\* -------------------------------------- preview-playlist, processed directly

\* Songs enough for playlists shorter than, as long as and longer than the
\* five entries of a preview.
PreviewSongs(length) == [i \in 1..length |-> <<"s", i>>]

\* A preview request: the playlist p1 (any length, any position, the
\* position a merge left at the length among them) and the name asked for.
PreviewCalls ==
  [fn : {"preview_playlist"},
   pl : {[position |-> p, songs |-> PreviewSongs(l)] :
           <<l, p>> \in {<<l, p>> \in (1..MaxPreviewLen) \X (0..MaxPreviewLen) : p <= l}},
   playlist : {"p1", "nope"}]

\* A playlist with a current track (next is only called after current
\* returned) that is advanced as many times as it has songs.
AdvanceCalls ==
  {[fn |-> "advance", pl |-> c.pl] :
     c \in {c \in PreviewCalls : c.playlist = "p1" /\ CurrentInRange(c.pl)}}

\* A shuffle request: every registry of the bounds, positions anywhere.
ShuffleCalls ==
  {[fn |-> "shuffle_playlists",
    playlists |-> r.playlists, current_playlist |-> r.current_playlist] :
     r \in InputRegistries}

\* The registry a call is processed on.
RegistryOf(c) ==
  IF c.fn = "shuffle_playlists"
  THEN c.playlists
  ELSE [n \in {"p1", "p2"} |-> IF n = "p1" THEN c.pl ELSE PlaylistNew(<<"c">>)]

\* A selected playlist with a current track that is asked for its next
\* track as many times as it has songs.
NextTracksCalls ==
  {[fn |-> "next_tracks", pl |-> c.pl] : c \in AdvanceCalls}

InitPreview ==
  /\ overflow_checks \in BOOLEAN
  /\ call \in PreviewCalls \cup AdvanceCalls \cup ShuffleCalls \cup NextTracksCalls
  /\ result = NoResult
  /\ panicked = FALSE
  /\ playlists = RegistryOf(call)
  /\ current_playlist = IF call.fn = "shuffle_playlists" THEN call.current_playlist
                        ELSE IF call.fn = "next_tracks" THEN "p1"
                        ELSE "p2"
  /\ id3_tags = EmptyMap
  /\ sq_entries = SpecialEntries
  /\ sq_position = 0
  /\ last_play_time = 0
  /\ now = 0
  /\ response = [kind |-> "none"]
  /\ last_request = NoRequest
  /\ connected = FALSE
  /\ command_buffer = <<>>
  /\ sent = <<>>
  /\ received = <<>>
  /\ last_read = NoRead
  /\ ended = "no"

\* process_request(PreviewPlaylist(call.playlist))
CallPreviewPlaylist ==
  /\ call.fn = "preview_playlist"
  /\ result = NoResult
  /\ process_request(RpcWithPlaylist("PreviewPlaylist", call.playlist), NoEnv)
  /\ result' = [fn |-> "preview_playlist"]
  /\ UNCHANGED <<overflow_checks, conn_vars, call>>

\* Playlist::next applied songs.len() times to the playlist of the call;
\* trail[i + 1] is the playlist after i advances.
CallAdvance ==
  /\ call.fn = "advance"
  /\ result = NoResult
  /\ result' = [fn |-> "advance",
                trail |-> [i \in 1..(Len(call.pl.songs) + 1) |-> Advance(call.pl, i - 1)]]
  /\ UNCHANGED <<overflow_checks, server_vars, conn_vars, call>>

\* process_request(ShufflePlaylists)
CallShufflePlaylists ==
  /\ call.fn = "shuffle_playlists"
  /\ result = NoResult
  /\ process_request(Rpc("ShufflePlaylists"), NoEnv)
  /\ result' = [fn |-> "shuffle_playlists"]
  /\ UNCHANGED <<overflow_checks, conn_vars, call>>

\* The paths answered by the requests of a next_tracks call so far.
Served == IF result.fn = "next_tracks" THEN result.served ELSE <<>>

\* process_request(NextTrack), once more, until the playlist has been asked
\* as many times as it has songs.
CallNextTrackAgain ==
  /\ call.fn = "next_tracks"
  /\ ~panicked
  /\ Len(Served) < Len(call.pl.songs)
  /\ \E generated, exists \in BOOLEAN :
       process_request(Rpc("NextTrack"),
                       [NoEnv EXCEPT !.generated = generated, !.exists = exists])
  /\ result' = [fn |-> "next_tracks",
                served |-> IF panicked' THEN Served ELSE Append(Served, response'.path)]
  /\ UNCHANGED <<overflow_checks, conn_vars, call>>

NextPreview ==
  \/ CallPreviewPlaylist
  \/ CallAdvance
  \/ CallShufflePlaylists
  \/ CallNextTrackAgain

SpecPreview == InitPreview /\ [][NextPreview]_vars

\* ------------------------------------------------------- utils.rs: ID3 tags

\* Longest text given to a field of a tag, in bytes.
MaxTextLen == 31

\* const GENRE_TABLE: [ID3Genres; 192]
GENRE_TABLE ==
  <<"Blues", "ClassicRock", "Country", "Dance", "Disco", "Funk", "Grunge",
    "HipHop", "Jazz", "Metal", "NewAge", "Oldies", "Other", "Pop", "RAndB",
    "Rap", "Reggae", "Rock", "Techno", "Industrial", "Alternative", "Ska",
    "DeathMetal", "Pranks", "Soundtrack", "EuroTechno", "Ambient", "TripHop",
    "Vocal", "JazzAndFunk", "Fusion", "Trance", "Classical", "Instrumental",
    "Acid", "House", "Game", "SoundClip", "Gospel", "Noise", "AltRock",
    "Bass", "Soul", "Punk", "Space", "Meditative", "InstrumentalPop",
    "InstrumentalRock", "Ethnic", "Gothic", "Darkwave", "TechnoIndustrial",
    "Electronic", "PopFolk", "Eurodance", "Dream", "SouthernRock", "Comedy",
    "Cult", "GangstaRap", "Top40", "ChristianRap", "PopAndFunk", "Jungle",
    "NativeAmerican", "Cabaret", "NewWave", "Psychedelic", "Rave",
    "Showtunes", "Trailer", "LoFi", "Tribal", "AcidPunk", "AcidJazz",
    "Polka", "Retro", "Musical", "RockAndRoll", "HardRock", "Folk",
    "FolkRock", "NationalFolk", "Swing", "FastFusion", "Bebop", "Latin",
    "Revival", "Celtic", "Bluegrass", "Avantgarde", "GothicRock",
    "ProgressiveRock", "PsychedelicRock", "SymphonicRock", "SlowRock",
    "BigBand", "Chorus", "EasyListening", "Acoustic", "Humour", "Speech",
    "Chanson", "Opera", "ChamberMusic", "Sonata", "Symphony", "BootyBass",
    "Primus", "PornGroove", "Satire", "SlowJam", "Club", "Tango", "Samba",
    "Folklore", "Ballad", "PowerBallad", "RhythmicSoul", "Freestyle", "Duet",
    "PunkRock", "DrumSolo", "ACappella", "EuroHouse", "DanceHall", "Goa",
    "DrumAndBass", "ClubHouse", "Hardcore", "Terror", "Indie", "BritPop",
    "AfroPunk", "PolskPunk", "Beat", "ChristianGangstaRap", "HeavyMetal",
    "BlackMetal", "Crossover", "ContemporaryChristian", "ChristianRock",
    "Merengue", "Salsa", "ThrashMetal", "Anime", "JPop", "Synthpop",
    "Abstract", "ArtRock", "Baroque", "Bhangra", "BigBeat", "Breakbeat",
    "Chillout", "Downtempo", "Dub", "EBM", "Eclectic", "Electro",
    "Electroclash", "Emo", "Experimental", "Garage", "Global", "IDM",
    "Illbient", "IndustroGoth", "JamBand", "Krautrock", "Leftfield",
    "Lounge", "MathRock", "NewRomantic", "NuBreakz", "PostPunk", "PostRock",
    "Psytrance", "Shoegaze", "SpaceRock", "TropRock", "WorldMusic",
    "Neoclassical", "Audiobook", "AudioTheatre", "NeueDeutscheWelle",
    "Podcast", "IndieRock", "GFunk", "Dubstep", "GarageRock", "Psybient">>

\* A variant that answers the last entry of the table for a code beyond it.
ID3Genres_from_saturating(genre) ==
  IF genre < Len(GENRE_TABLE) THEN GENRE_TABLE[genre + 1]
  ELSE GENRE_TABLE[Len(GENRE_TABLE)]

\* impl From<u8> for ID3Genres
ID3Genres_from(genre) ==
  IF genre < Len(GENRE_TABLE) THEN GENRE_TABLE[genre + 1] ELSE "Unknown"

\* impl From<ID3Genres> for u8: the index of the first entry equal to the
\* genre, 255 without one.
u8_from(genre) ==
  IF \E i \in 1..Len(GENRE_TABLE) : GENRE_TABLE[i] = genre
  THEN ((CHOOSE i \in 1..Len(GENRE_TABLE) :
           /\ GENRE_TABLE[i] = genre
           /\ \A j \in 1..(i - 1) : GENRE_TABLE[j] # genre) - 1) % 256
  ELSE 255

\* A variant that cuts a long value and pads nothing.
pad_bytes_truncates_only(value, length) ==
  IF Len(value) >= length THEN SubSeq(value, 1, length) ELSE value

\* pad_bytes: value.as_bytes() resized to length with NUL bytes.
pad_bytes(value, length) ==
  IF Len(value) >= length THEN SubSeq(value, 1, length)
  ELSE value \o [i \in 1..(length - Len(value)) |-> 0]

RECURSIVE Decimal(_)
Decimal(n) == IF n < 10 THEN <<48 + n>> ELSE Decimal(n \div 10) \o <<48 + (n % 10)>>

\* A variant that writes the year without leading zeros.
format_04_unpadded(n) == Decimal(n)

\* format!("{:04}", n): the decimal digits, zero-padded to four.
format_04(n) ==
  LET digits == Decimal(n)
  IN  IF Len(digits) >= 4 THEN digits
      ELSE [i \in 1..(4 - Len(digits)) |-> 48] \o digits

\* ID3::to_stream with every write taking its whole buffer, as writes of
\* this size to the file do: whether it succeeded and the bytes emitted.
to_stream(tag) ==
  IF tag.year > 9999
  THEN [ok |-> FALSE, bytes |-> <<>>]
  ELSE [ok |-> TRUE,
        bytes |-> <<84, 65, 71>>
                  \o pad_bytes(tag.title, 29) \o <<0>>
                  \o pad_bytes(tag.artist, 29) \o <<0>>
                  \o pad_bytes(tag.album, 29) \o <<0>>
                  \o format_04(tag.year)
                  \o (IF tag.track.some
                      THEN pad_bytes(tag.comment, 28) \o <<0, tag.track.value>>
                      ELSE pad_bytes(tag.comment, 29) \o <<0>>)
                  \o <<u8_from(tag.genre)>>]

\* iter().take_while(|b| **b != 0)
RECURSIVE take_while_nonzero(_)
take_while_nonzero(bytes) ==
  IF bytes = <<>> \/ Head(bytes) = 0 THEN <<>>
  ELSE <<Head(bytes)>> \o take_while_nonzero(Tail(bytes))

\* The width of the UTF-8 sequence the bytes start with, 0 when they start
\* with none.
Utf8Width(b) ==
  LET cont(i) == i <= Len(b) /\ b[i] >= 128 /\ b[i] <= 191
  IN  IF b[1] < 128 THEN 1
      ELSE IF b[1] >= 194 /\ b[1] <= 223 /\ cont(2) THEN 2
      ELSE IF /\ b[1] >= 224 /\ b[1] <= 239 /\ cont(2) /\ cont(3)
              /\ b[1] = 224 => b[2] >= 160
              /\ b[1] = 237 => b[2] <= 159 THEN 3
      ELSE IF /\ b[1] >= 240 /\ b[1] <= 244 /\ cont(2) /\ cont(3) /\ cont(4)
              /\ b[1] = 240 => b[2] >= 144
              /\ b[1] = 244 => b[2] <= 143 THEN 4
      ELSE 0

\* str::from_utf8(bytes) is Ok
RECURSIVE str_from_utf8(_)
str_from_utf8(bytes) ==
  \/ bytes = <<>>
  \/ /\ Utf8Width(bytes) > 0
     /\ str_from_utf8(SubSeq(bytes, Utf8Width(bytes) + 1, Len(bytes)))

RECURSIVE DigitsValue(_)
DigitsValue(digits) ==
  IF digits = <<>> THEN 0
  ELSE DigitsValue(SubSeq(digits, 1, Len(digits) - 1)) * 10
       + (digits[Len(digits)] - 48)

\* u16::from_str_radix(s, 10) on the four bytes of the year: an optional
\* plus sign and at least one digit, nothing else.
from_str_radix(s) ==
  LET digits == IF s # <<>> /\ s[1] = 43 THEN Tail(s) ELSE s
  IN  IF digits # <<>> /\ \A i \in 1..Len(digits) : digits[i] >= 48 /\ digits[i] <= 57
      THEN [ok |-> TRUE, value |-> DigitsValue(digits) % 65536]
      ELSE [ok |-> FALSE, value |-> 0]

\* ID3::from_stream on a stream of the given bytes.
from_stream(stream) ==
  IF Len(stream) < 128 THEN [ok |-> FALSE, err |-> "IOError"]
  ELSE
  LET buffer == SubSeq(stream, Len(stream) - 127, Len(stream))
      title_bytes == take_while_nonzero(SubSeq(buffer, 4, 33))
      artist_bytes == take_while_nonzero(SubSeq(buffer, 34, 63))
      album_bytes == take_while_nonzero(SubSeq(buffer, 64, 93))
      track_marker == buffer[126]
      track_number == buffer[127]
      genre_number == buffer[128]
      comment_bytes ==
        take_while_nonzero(SubSeq(buffer, 98, 125))
        \o (IF track_marker # 0
            THEN <<track_number>> \o (IF track_number # 0 THEN <<track_number>> ELSE <<>>)
            ELSE <<>>)
      year_bytes == SubSeq(buffer, 94, 97)
      year == from_str_radix(year_bytes)
  IN  IF SubSeq(buffer, 1, 3) # <<84, 65, 71>> THEN [ok |-> FALSE, err |-> "NoID3Tag"]
      ELSE IF ~str_from_utf8(title_bytes) THEN [ok |-> FALSE, err |-> "DecodeError"]
      ELSE IF ~str_from_utf8(artist_bytes) THEN [ok |-> FALSE, err |-> "DecodeError"]
      ELSE IF ~str_from_utf8(album_bytes) THEN [ok |-> FALSE, err |-> "DecodeError"]
      ELSE IF ~str_from_utf8(comment_bytes) THEN [ok |-> FALSE, err |-> "DecodeError"]
      ELSE IF ~str_from_utf8(year_bytes) THEN [ok |-> FALSE, err |-> "DecodeError"]
      ELSE IF year_bytes # <<0, 0, 0, 0>> /\ ~year.ok THEN [ok |-> FALSE, err |-> "YearError"]
      ELSE [ok |-> TRUE, err |-> "none",
            tag |-> [title |-> title_bytes,
                     artist |-> artist_bytes,
                     album |-> album_bytes,
                     year |-> IF year_bytes = <<0, 0, 0, 0>> THEN 0 ELSE year.value,
                     comment |-> comment_bytes,
                     track |-> IF track_marker = 0
                               THEN [some |-> FALSE, value |-> 0]
                               ELSE [some |-> TRUE, value |-> track_number],
                     genre |-> ID3Genres_from(genre_number)]]

\* The texts of the fields: none, "X", "shuffled", texts one below, at and
\* over the capacity of a slot, and one whose 29th and 30th byte are the two
\* bytes of one character.
InputTexts ==
  {<<>>, <<88>>, <<115, 104, 117, 102, 102, 108, 101, 100>>}
  \cup {[i \in 1..n |-> 97] : n \in {28, 29, 30, MaxTextLen}}
  \cup {[i \in 1..30 |-> IF i = 29 THEN 195 ELSE IF i = 30 THEN 169 ELSE 97]}

\* The tags written: ID3::new() with the fields a caller has set.
InputTags ==
  [title : InputTexts,
   artist : {<<115, 104, 117, 102, 102, 108, 101, 100>>, [i \in 1..30 |-> 97]},
   album : {<<>>, [i \in 1..MaxTextLen |-> 97]},
   year : {0, 7, 1000, 2020, 9999, 10000, 65535},
   comment : {<<71>>, [i \in 1..28 |-> 97], [i \in 1..MaxTextLen |-> 97]},
   track : {[some |-> FALSE, value |-> 0], [some |-> TRUE, value |-> 1],
            [some |-> TRUE, value |-> 255]},
   genre : {"Blues", "Psybient", "Unknown"}]

\* ID3::new()
ID3New ==
  [title |-> <<>>, artist |-> <<>>, album |-> <<>>, year |-> 1000,
   comment |-> <<>>, track |-> [some |-> FALSE, value |-> 0], genre |-> "Unknown"]

\* A tag appended to a file (the frames lame wrote, or nothing) and read
\* back from it, the new tag with every year up to 10001 and the largest
\* year among them; a genre code decoded and encoded again.
ID3Calls ==
  [fn : {"id3"}, tag : InputTags, file : {<<>>, <<255, 251>>}]
  \cup [fn : {"id3"},
        tag : {[ID3New EXCEPT !.year = y] : y \in (0..10001) \cup {65535}},
        file : {<<>>}]
  \cup [fn : {"genre"}, code : 0..255]

InitID3 ==
  /\ overflow_checks = FALSE
  /\ ServerAtRest
  /\ call \in ID3Calls
  /\ result = NoResult

\* tag.to_stream(&mut mp3) on the file opened for appending.
CallToStream ==
  /\ call.fn = "id3"
  /\ result = NoResult
  /\ LET written == to_stream(call.tag)
     IN  result' = [fn |-> "to_stream", ok |-> written.ok, bytes |-> written.bytes,
                    file |-> call.file \o written.bytes]
  /\ UNCHANGED <<overflow_checks, server_vars, conn_vars, call>>

\* ID3::from_stream on the file that was written.
CallFromStream ==
  /\ result.fn = "to_stream"
  /\ result' = [fn |-> "from_stream", written |-> result, read |-> from_stream(result.file)]
  /\ UNCHANGED <<overflow_checks, server_vars, conn_vars, call>>

\* genre_number.into() and back.
CallGenre ==
  /\ call.fn = "genre"
  /\ result = NoResult
  /\ result' = [fn |-> "genre", genre |-> ID3Genres_from(call.code),
                code |-> u8_from(ID3Genres_from(call.code))]
  /\ UNCHANGED <<overflow_checks, server_vars, conn_vars, call>>

NextID3 == CallToStream \/ CallFromStream \/ CallGenre

SpecID3 == InitID3 /\ [][NextID3]_vars

\* ------------------------------------------------- claims about merge_songs

\* A call of merge_songs that returned.
MergeDone == result.fn = "merge_songs" /\ ~result.panic

\* The original indices of the songs the call removes.
RemovedIndices(c) == Range(to_remove_indices(c.pl.songs, c.to_remove))

RemovedBefore(c) == {idx \in RemovedIndices(c) : idx < c.pl.position}

CurrentRemoved(c) == c.pl.position \in RemovedIndices(c)

\* The songs after the current one that the call keeps.
LaterSurvivors(c) ==
  SelectSeq(SubSeq(c.pl.songs, c.pl.position + 2, Len(c.pl.songs)),
            LAMBDA song : ~Contains(c.to_remove, song))

\* C2: merge_songs never leaves the position below 0, nor at or above the new
\* length when the new length is positive.
C2_MergePositionInRange ==
  (MergeDone /\ Len(result.songs) > 0) =>
     (result.position >= 0 /\ result.position < Len(result.songs))

\* C3: merge_songs moves the position back by exactly the number of removed
\* songs that were before it, so a current song that is kept stays current.
C3_MergeShiftsByRemovedPredecessors ==
  MergeDone =>
     /\ result.position = call.pl.position - Cardinality(RemovedBefore(call))
     /\ ~CurrentRemoved(call) =>
           /\ result.position < Len(result.songs)
           /\ current(result) = current(call.pl)

\* C4: when no removed song was before the position (the current song or
\* later ones are removed), the position index stays; the kept current song
\* stays current, and a removed current song gives its slot to the next song
\* kept after it.
C4_RemovalAtOrAfterKeepsPosition ==
  (MergeDone /\ RemovedBefore(call) = {}) =>
     /\ result.position = call.pl.position
     /\ ~CurrentRemoved(call) =>
           /\ result.position < Len(result.songs)
           /\ current(result) = current(call.pl)
     /\ (CurrentRemoved(call) /\ LaterSurvivors(call) # <<>>) =>
           /\ result.position < Len(result.songs)
           /\ current(result) = Head(LaterSurvivors(call))

C4_Witness ==
  /\ MergeDone
  /\ RemovedBefore(call) = {}
  /\ CurrentRemoved(call)
  /\ LaterSurvivors(call) # <<>>
  /\ call.pl.position > 0

\* C5: diff_playlist against a duplicate-free target, then merge_songs with
\* its result, leaves a playlist whose diff against the same target is two
\* empty lists: it holds exactly the target's tracks.
C5_DiffMergeIdempotent ==
  (result.fn = "diff_merge" /\ ~result.merged.panic) =>
     /\ result.rediff.to_add = <<>>
     /\ result.rediff.to_remove = <<>>
     /\ Range(result.merged.songs) = Range(call.playlist)

C5_Witness ==
  /\ result.fn = "diff_merge"
  /\ ~result.merged.panic
  /\ Len(result.diff.to_add) > 1
  /\ Len(result.diff.to_remove) > 1

\* C6: after merge_songs the list is the songs held before that to_remove
\* does not contain, in their order, followed by to_add in its order;
\* [a,b,c] at 1 with to_remove [a] and to_add [d] becomes [b,c,d] at 0.
C6_Scenario ==
  [fn |-> "merge_songs", pl |-> [position |-> 1, songs |-> <<"a", "b", "c">>],
   to_add |-> <<"d">>, to_remove |-> <<"a">>]

C6_MergeKeepsOrderAppends ==
  MergeDone =>
     /\ result.songs =
          SelectSeq(call.pl.songs, LAMBDA song : ~Contains(call.to_remove, song))
          \o call.to_add
     /\ call = C6_Scenario =>
          (result.songs = <<"b", "c", "d">> /\ result.position = 0)

C6_Witness == MergeDone /\ call = C6_Scenario

\* ------------------------------------------------ claims about the registry

\* C1: every playlist of the registry has at least one song and a position
\* inside its list, so reading the current song never fails.
C1_PlaylistsNonEmptyPositionInRange ==
  \A n \in DOMAIN playlists :
     /\ Len(playlists[n].songs) > 0
     /\ playlists[n].position >= 0
     /\ playlists[n].position < Len(playlists[n].songs)

\* C7: the registry always holds a playlist and the selected name is one of
\* its keys, also after a reload that drops the selected playlist.
C7_SelectedIsKey ==
  /\ DOMAIN playlists # {}
  /\ current_playlist \in DOMAIN playlists

\* A reload has answered ok and the playlist selected before it is gone.
C7_Witness ==
  /\ last_request.rpc.kind = "ReloadPlaylists"
  /\ response = Status("Ok")
  /\ ~panicked
  /\ last_request.selected \notin DOMAIN playlists

\* ------------------------------------------ claims about try_parse_request

\* The first line of a buffer that holds a line feed.
FirstLine(buffer) == SubSeq(buffer, 1, first_newline(buffer))

\* The line is the text of one JSON object.
IsObjectText(line) ==
  /\ Len(line) >= 2
  /\ Head(line) = OpenBrace
  /\ line[Len(line)] = CloseBrace
  /\ \A i \in 2..(Len(line) - 1) : line[i].t \in {"str", "num"}

\* The string fields of the line named key.
StringFields(line, key) ==
  {line[i].val : i \in {i \in 1..Len(line) : line[i].t = "str" /\ line[i].key = key}}

\* What the claim says a complete line is parsed to.
C10_Expected(line) ==
  IF \/ \E i \in 1..Len(line) : line[i] = BadUtf8
     \/ ~IsObjectText(line)
     \/ StringFields(line, "command") = {}
  THEN [kind |-> "InvalidRequest"]
  ELSE LET command == CHOOSE c \in StringFields(line, "command") : TRUE
           playlist == StringFields(line, "playlist")
       IN  CASE command = "next-track" -> [kind |-> "NextTrack"]
             [] command = "list-playlists" -> [kind |-> "ListPlaylists"]
             [] command = "get-playlist" -> [kind |-> "GetPlaylist"]
             [] command = "reload-playlists" -> [kind |-> "ReloadPlaylists"]
             [] command = "shuffle-playlists" -> [kind |-> "ShufflePlaylists"]
             [] command = "reload-tags" -> [kind |-> "ReloadTags"]
             [] command = "switch-playlist" ->
                  IF playlist = {} THEN [kind |-> "InvalidParameter"]
                  ELSE [kind |-> "SwitchPlaylist",
                        playlist |-> CHOOSE x \in playlist : TRUE]
             [] command = "preview-playlist" ->
                  IF playlist = {} THEN [kind |-> "InvalidParameter"]
                  ELSE [kind |-> "PreviewPlaylist",
                        playlist |-> CHOOSE x \in playlist : TRUE]
             [] OTHER -> [kind |-> "UnknownCommand"]

\* C10: every complete line is classified: not valid text, not a JSON
\* object, or no string command gives InvalidRequest; a command outside the
\* eight names UnknownCommand; switch-playlist or preview-playlist without a
\* string playlist InvalidParameter; otherwise the typed command.
C10_ParseClassifiesEveryLine ==
  (result.fn = "try_parse_request" /\ first_newline(call.buffer) # -1) =>
     /\ result.some
     /\ result.rpc = C10_Expected(FirstLine(call.buffer))

C10_Witness ==
  /\ result.fn = "try_parse_request"
  /\ result.some
  /\ result.rpc = [kind |-> "PreviewPlaylist", playlist |-> "p1"]
  /\ result.rest = NextTrackRequest

\* -------------------------------------------- claims about process_connection

\* The bytes of the reads of a connection, in order.
RECURSIVE BytesRead(_)
BytesRead(chunks) ==
  IF chunks = <<>> THEN <<>> ELSE Head(chunks) \o BytesRead(Tail(chunks))

\* The requests of the complete lines among bytes, in order.
RECURSIVE RequestsIn(_)
RequestsIn(bytes) ==
  IF first_newline(bytes) = -1 THEN <<>>
  ELSE <<ParseLine(SubSeq(bytes, 1, first_newline(bytes)))>>
       \o RequestsIn(SubSeq(bytes, first_newline(bytes) + 2, Len(bytes)))

StatusRequests == {"InvalidRequest", "UnknownCommand", "InvalidParameter"}

\* C8: the handler is about to read again after a first read that delivered
\* two complete request lines: that read dispatched both commands, in
\* arrival order, and wrote two response lines.
C8_TwoLinesInOneReadBothServed ==
  (/\ connected
   /\ Len(received) = 1
   /\ Len(RequestsIn(received[1])) = 2) =>
     /\ last_read.dispatched = RequestsIn(received[1])
     /\ last_read.written = 2
     /\ Len(sent) = 2

\* C9: when a connection has ended on the client's side (end of stream, a
\* read error or timeout), every complete line it delivered was answered by
\* one response line, in arrival order, a malformed, unknown or
\* invalid-parameter line by its status; and such a line, once answered,
\* leaves the connection open.
C9_EveryLineAnsweredOnceInOrder ==
  /\ ended \in {"eof", "error"} =>
       /\ Len(sent) = Len(RequestsIn(BytesRead(received)))
       /\ \A i \in 1..Len(sent) :
            LET rpc == RequestsIn(BytesRead(received))[i]
            IN  rpc.kind \in StatusRequests =>
                  sent[i] = send_response(Status(rpc.kind))
  /\ (/\ last_read.written = 1
      /\ last_read.dispatched[1].kind \in StatusRequests) =>
       connected \/ ended \in {"eof", "error"}

\* C11: a buffer that holds a line feed loses exactly the bytes up to and
\* including its first line feed, whatever the line is, and the bytes after
\* them stay as they were; a buffer without a line feed gives no request and
\* keeps every byte.
C11_ParseConsumesThroughFirstLineFeed ==
  result.fn = "try_parse_request" =>
    IF \E k \in 1..Len(call.buffer) : call.buffer[k] = LF
    THEN LET k == CHOOSE k \in 1..Len(call.buffer) :
                    /\ call.buffer[k] = LF
                    /\ \A j \in 1..(k - 1) : call.buffer[j] # LF
         IN  /\ result.some
             /\ result.offset = k
             /\ result.rest = [i \in 1..(Len(call.buffer) - k) |-> call.buffer[k + i]]
    ELSE /\ ~result.some
         /\ result.rest = call.buffer

C11_Witness ==
  /\ result.fn = "try_parse_request"
  /\ result.some
  /\ result.rpc = Rpc("InvalidRequest")
  /\ result.offset > 1
  /\ result.rest = <<LF>>

\* --------------------------------------------- claims about process_request

\* The step is one request of the kind (the clock is read, never set, by a
\* request; every request records itself in last_request).
RequestStep(kind) == now' = now /\ last_request'.rpc.kind = kind

\* C12: switch-playlist with a name that is a key of the registry selects it
\* and answers ok; with any other name it answers no-such-playlist and
\* keeps the selection; no playlist changes either way.
C12_SwitchPlaylistSelectsKnownName ==
  [][RequestStep("SwitchPlaylist") =>
       /\ IF last_request'.rpc.playlist \in DOMAIN playlists
          THEN /\ current_playlist' = last_request'.rpc.playlist
               /\ response' = Status("Ok")
          ELSE /\ current_playlist' = current_playlist
               /\ response' = Status("NoSuchPlaylist")
       /\ playlists' = playlists
       /\ ~panicked']_vars

C12_Witness ==
  /\ last_request.rpc.kind = "SwitchPlaylist"
  /\ last_request.rpc.playlist = "p2"
  /\ last_request.selected = "p1"
  /\ current_playlist = "p2"
  /\ response = Status("Ok")

\* The step is a read that returned bytes.
ReadStep == connected /\ Len(received') = Len(received) + 1

\* The first line of the buffer after that read.
LineRead == FirstLine(command_buffer \o received'[Len(received')])

\* C13: a switch-playlist line without a string playlist field is answered
\* with the invalid-parameter status, and the selection, the playlists and
\* the special queue stay as they were.
C13_SwitchWithoutPlaylistIsInvalidParameter ==
  [][(/\ ReadStep
      /\ IsObjectText(LineRead)
      /\ StringFields(LineRead, "command") = {"switch-playlist"}
      /\ StringFields(LineRead, "playlist") = {}) =>
       /\ response' = Status("InvalidParameter")
       /\ last_read'.written = 1 =>
            sent' = Append(sent, [key |-> "status", value |-> "invalid-parameter"])
       /\ last_read'.written = 1 \/ ended' = "write_error"
       /\ current_playlist' = current_playlist
       /\ playlists' = playlists
       /\ SpecialState' = SpecialState]_vars

C13_Witness ==
  /\ connected
  /\ last_read = [dispatched |-> <<Rpc("InvalidParameter")>>, written |-> 1]
  /\ received[Len(received)] =
       Line(<<StrMember("command", "switch-playlist"), NumMember("playlist")>>)
  /\ sent[Len(sent)] = [key |-> "status", value |-> "invalid-parameter"]

\* --------------------------------------------- claims about reload-playlists

ReloadDone == result.fn = "reload_playlists"

\* C14: a reload that finds the directory unreadable, or without a playlist
\* file, answers no-playlists-available and leaves the playlists, the
\* selection and the tag cache as they were.
C14_ReloadWithoutDirectoryKeepsRegistry ==
  (ReloadDone /\ (~call.dir.readable \/ DOMAIN call.dir.files = {})) =>
     /\ response = Status("NoPlaylistsAvailable")
     /\ playlists = call.playlists
     /\ current_playlist = call.current_playlist
     /\ id3_tags = call.id3_tags
     /\ ~panicked

C14_Witness ==
  /\ ReloadDone
  /\ call.dir.readable
  /\ DOMAIN call.dir.files = {}
  /\ DOMAIN call.playlists = {"p1", "p2"}
  /\ response = Status("NoPlaylistsAvailable")

\* The entries of a playlist file: its lines that are not blank.
Entries(file) == SelectSeq(file, LAMBDA line : line # "")

\* A playlist file is well formed: it has an entry, each entry is a file,
\* none twice.
WellFormed(file) ==
  /\ Entries(file) # <<>>
  /\ NoDup(Entries(file))
  /\ \A i \in 1..Len(Entries(file)) : is_file(Entries(file)[i])

\* C15: a malformed playlist file (a missing track file, a duplicate entry,
\* no entry) is skipped alone: the well-formed files of the same directory
\* are loaded and reconciled, and the server does not crash on it.
C15_MalformedFileSkippedAlone ==
  (/\ ReloadDone
   /\ call.dir.readable
   /\ \E n \in DOMAIN call.dir.files : ~WellFormed(call.dir.files[n])
   /\ ~overflow_checks) =>
     /\ ~panicked
     /\ \A n \in DOMAIN call.dir.files :
          WellFormed(call.dir.files[n]) =>
            /\ n \in DOMAIN playlists
            /\ Range(playlists[n].songs) = Range(Entries(call.dir.files[n]))

\* C16: after a reload that succeeded the registry holds exactly the names
\* of the playlist files on disk; a selected playlist that is still there
\* stays selected, one that was dropped is replaced by a remaining key.
C16_ReloadRegistryNamesAreDiskNames ==
  (ReloadDone /\ response = Status("Ok")) =>
     /\ DOMAIN playlists = DOMAIN call.dir.files
     /\ current_playlist \in DOMAIN playlists
     /\ call.current_playlist \in DOMAIN call.dir.files =>
          current_playlist = call.current_playlist

C16_Witness ==
  /\ ReloadDone
  /\ response = Status("Ok")
  /\ DOMAIN call.playlists = {"p1", "p2"}
  /\ call.current_playlist = "p2"
  /\ DOMAIN call.dir.files = {"p1"}
  /\ current_playlist = "p1"

\* C17: after a reload that succeeded, a playlist known before holds first
\* its tracks that are still on disk, in the order they had, then the
\* tracks new on disk; a playlist not known before is at position 0 and
\* holds the tracks of its file.
C17_ReloadKeepsOrderAppendsNew ==
  (ReloadDone /\ response = Status("Ok")) =>
     \A n \in DOMAIN playlists :
       LET disk == Entries(call.dir.files[n])
           new  == playlists[n].songs
       IN  IF n \in DOMAIN call.playlists
           THEN LET old  == call.playlists[n].songs
                    kept == SelectSeq(old, LAMBDA song : Contains(disk, song))
                IN  /\ Len(new) = Len(disk)
                    /\ SubSeq(new, 1, Len(kept)) = kept
                    /\ Range(SubSeq(new, Len(kept) + 1, Len(new))) =
                         Range(disk) \ Range(old)
           ELSE /\ playlists[n].position = 0
                /\ Len(new) = Len(disk)
                /\ Range(new) = Range(disk)

C17_Witness ==
  /\ ReloadDone
  /\ response = Status("Ok")
  /\ DOMAIN call.playlists = {"p1"}
  /\ call.playlists["p1"].songs = <<"b", "d", "a">>
  /\ DOMAIN playlists = {"p1", "p2"}
  /\ playlists["p1"].songs = <<"b", "a">>
  /\ playlists["p2"].position = 0

\* -------------------------------------------- claims about the special queue

\* The step is a next-track request answered with a special entry.
SpecialServed ==
  /\ RequestStep("NextTrack")
  /\ ~panicked'
  /\ response'.kind = "Track"
  /\ response'.path \in {CLOCK_MP3_FILE, WEATHER_MP3_FILE}

\* The file of a special entry.
EntryFile(entry) ==
  IF entry = "TimeGenerator" THEN CLOCK_MP3_FILE ELSE WEATHER_MP3_FILE

\* C19: the position and the last-served time of the special queue change
\* only in a next-track request answered with a special entry; that request
\* serves the entry at the position, moves the position on by one modulo
\* the number of entries and sets last-served to the current time.
C19_SpecialQueueMovesOnlyWhenServed ==
  [][/\ <<sq_position, last_play_time>>' # <<sq_position, last_play_time>> =>
          SpecialServed
     /\ SpecialServed =>
          /\ response'.path = EntryFile(sq_entries[sq_position + 1])
          /\ sq_position' = (sq_position + 1) % Len(sq_entries)
          /\ last_play_time' = now
     /\ sq_entries' = sq_entries]_vars

C19_Witness ==
  /\ last_request.rpc.kind = "NextTrack"
  /\ response = [kind |-> "Track", path |-> WEATHER_MP3_FILE]
  /\ sq_position = 0
  /\ last_play_time = now
  /\ now = 2

NextTrackDone == result.fn = "next_track"

\* The queue of the call has an entry and the interval has passed since the
\* last one was served.
Due == Len(call.entries) >= 1 /\ call.now - call.last_play_time >= Interval

\* The entry at the position of the call resolves to a file that is there.
Resolved ==
  /\ call.entries[call.position + 1] = "TimeGenerator" => call.generated
  /\ call.exists

\* The request was answered with the selected playlist's current track and
\* the playlist moved on.
PlaylistServed ==
  /\ ~panicked
  /\ response = [kind |-> "Track", path |-> call.pl.songs[call.pl.position + 1]]
  /\ playlists["p1"].songs = call.pl.songs
  /\ playlists["p1"].position = (call.pl.position + 1) % Len(call.pl.songs)

\* C18: a next-track request that finds the special queue pending but its
\* entry not resolved to an existing file is answered with the selected
\* playlist's current track, the playlist advances, and the position and
\* last-served time of the special queue stay as they were.
C18_UnresolvedSpecialFallsBackToPlaylist ==
  (/\ NextTrackDone
   /\ Due
   /\ ~Resolved
   /\ call.pl.position < Len(call.pl.songs)) =>
     /\ PlaylistServed
     /\ sq_position = call.position
     /\ last_play_time = call.last_play_time

C18_Witness ==
  /\ NextTrackDone
  /\ Due
  /\ call.entries[call.position + 1] = "TimeGenerator"
  /\ ~call.generated
  /\ call.exists
  /\ PlaylistServed
  /\ last_play_time < now

\* C20: the special queue is pending exactly when it has an entry and the
\* time since the last-served time is at least the interval: only then, and
\* then whenever its entry resolves, next-track serves a special entry; with
\* an empty queue next-track serves the playlist as if there were no queue.
C20_PendingIffEntryAndIntervalPassed ==
  NextTrackDone =>
    /\ is_special_pending(call.entries, call.last_play_time, call.now) <=> Due
    /\ (~panicked /\ response.path \in {CLOCK_MP3_FILE, WEATHER_MP3_FILE}) => Due
    /\ (Due /\ Resolved) =>
         /\ ~panicked
         /\ response.path = EntryFile(call.entries[call.position + 1])
    /\ (call.entries = <<>> /\ call.pl.position < Len(call.pl.songs)) =>
         /\ PlaylistServed
         /\ sq_position = call.position
         /\ last_play_time = call.last_play_time

C20_Witness ==
  /\ NextTrackDone
  /\ call.entries = <<"File">>
  /\ call.now - call.last_play_time = Interval
  /\ response = [kind |-> "Track", path |-> WEATHER_MP3_FILE]
  /\ last_play_time = now

\* -------------------------------------------- claims about preview-playlist

PreviewDone == result.fn = "preview_playlist"

\* C21: preview-playlist leaves the position of the playlist, the tracks of
\* every playlist and the selection as they were, whatever the length of
\* the playlist; for a name that is not in the registry the answer is
\* no-such-playlist, otherwise (the playlist has a current track) the
\* entries of the preview.
C21_PreviewRestoresPosition ==
  PreviewDone =>
    /\ playlists = RegistryOf(call)
    /\ current_playlist = "p2"
    /\ call.playlist \notin {"p1", "p2"} =>
         ~panicked /\ response = Status("NoSuchPlaylist")
    /\ (call.playlist = "p1" /\ call.pl.position < Len(call.pl.songs)) =>
         /\ ~panicked
         /\ response.kind = "Tracks"
         /\ Len(response.tracks) = 5
         /\ \A x \in 0..4 :
              response.tracks[x + 1].file =
                call.pl.songs[((call.pl.position + x) % Len(call.pl.songs)) + 1]

C21_Witness ==
  /\ PreviewDone
  /\ call.playlist = "p1"
  /\ Len(call.pl.songs) = 3
  /\ call.pl.position = 2
  /\ response.kind = "Tracks"
  /\ playlists["p1"].position = 2

\* C22: on a non-empty playlist every advance sets the position to
\* (position + 1) mod length and leaves the songs alone, and length
\* advances bring the position back to where it started.
C22_AdvanceIsCyclic ==
  result.fn = "advance" =>
    LET length == Len(call.pl.songs)
    IN  /\ \A i \in 1..length :
             /\ result.trail[i + 1].position = (result.trail[i].position + 1) % length
             /\ result.trail[i + 1].songs = call.pl.songs
        /\ result.trail[length + 1].position = call.pl.position
        /\ \A i \in 2..length : result.trail[i].position # call.pl.position

C22_Witness ==
  /\ result.fn = "advance"
  /\ Len(call.pl.songs) = 4
  /\ call.pl.position = 2
  /\ result.trail[3].position = 0
  /\ result.trail[5].position = 2

\* ------------------------------------------- claims about shuffle-playlists

\* C23: shuffle-playlists puts every playlist of the registry at position 0
\* with the tracks it had, each as often as before, in some order; the
\* names of the playlists and the selection stay as they were and the
\* answer is ok.
C23_ShuffleResetsAndPermutes ==
  result.fn = "shuffle_playlists" =>
    /\ ~panicked
    /\ response = Status("Ok")
    /\ DOMAIN playlists = DOMAIN call.playlists
    /\ current_playlist = call.current_playlist
    /\ \A n \in DOMAIN call.playlists :
         /\ playlists[n].position = 0
         /\ Len(playlists[n].songs) = Len(call.playlists[n].songs)
         /\ \A t \in Tracks :
              Cardinality({i \in DOMAIN playlists[n].songs : playlists[n].songs[i] = t})
              = Cardinality({i \in DOMAIN call.playlists[n].songs :
                               call.playlists[n].songs[i] = t})

C23_Witness ==
  /\ result.fn = "shuffle_playlists"
  /\ DOMAIN call.playlists = {"p1", "p2"}
  /\ call.playlists["p1"] = [position |-> 2, songs |-> <<"a", "b", "c">>]
  /\ call.current_playlist = "p1"
  /\ playlists["p1"] = [position |-> 0, songs |-> <<"c", "a", "b">>]

\* ------------------------------------------------ claims about the accept loop

\* A step in which a connection is taken: its handler starts with nothing read.
AcceptStep == connected' /\ received' = <<>> /\ ended' = "no"

\* C24: one connection is served at a time. A connection is taken only
\* when no handler is running, a running handler is left only by its own
\* return, and the registry and the special queue change only in a read of
\* the connection being served, by the one request of that read.
C24_OneConnectionAtATime ==
  [][/\ AcceptStep => (~connected /\ server_vars' = server_vars)
     /\ (connected /\ connected') =>
          /\ Len(received') = Len(received) + 1
          /\ SubSeq(received', 1, Len(received)) = received
          /\ SubSeq(sent', 1, Len(sent)) = sent
     /\ server_vars' # server_vars =>
          /\ ReadStep
          /\ Len(last_read'.dispatched) = 1
          /\ last_request'.rpc = last_read'.dispatched[1]]_vars

\* A second connection is being served after an earlier one had a request
\* processed and returned.
C24_Witness ==
  /\ connected
  /\ received = <<>>
  /\ last_request # NoRequest
  /\ current_playlist = "p2"

\* ------------------------------------------- claims about the buffer's cap

\* The buffer try_parse_request is given in a read.
BufferRead == command_buffer \o received'[Len(received')]

\* C25: a read that leaves more than 4096 bytes without a line feed in the
\* buffer ends the connection: no request is dispatched, no response line
\* is written and the server's state is untouched. A buffer without a line
\* feed of at most 4096 bytes keeps the connection open, and a connection
\* is dropped as too large for no other reason.
C25_OversizedLineDropsConnection ==
  [][/\ (ReadStep /\ first_newline(BufferRead) = -1) =>
          /\ sent' = sent
          /\ last_read' = NoRead
          /\ server_vars' = server_vars
          /\ command_buffer' = BufferRead
          /\ IF BytesOf(BufferRead) > 4096
             THEN ~connected' /\ ended' = "too_large"
             ELSE connected' /\ ended' = "no"
     /\ (ended' = "too_large" /\ ended # "too_large") =>
          /\ ReadStep
          /\ first_newline(BufferRead) = -1
          /\ BytesOf(BufferRead) > 4096]_vars

\* The handler returned on a buffer of 4098 bytes without a line feed, read
\* in two pieces, with nothing sent.
C25_Witness ==
  /\ ended = "too_large"
  /\ ~connected
  /\ Len(received) = 2
  /\ received[2] = <<Bulk>>
  /\ BytesOf(command_buffer) = 4098
  /\ sent = <<>>

\* A buffer of exactly 4096 bytes without a line feed is kept.
C25_WitnessAtCap ==
  /\ connected
  /\ ended = "no"
  /\ BytesOf(command_buffer) = 4096

\* ----------------------------------------------- claims about a failed read

\* C26: a read that returns no bytes or fails (the timeout included) ends
\* the connection it was made on and nothing else: the handler returns
\* with the registry, the special queue and every other part of the
\* server's state as they were, and the server is ready to take the next
\* connection.
C26_FailedReadEndsOnlyTheConnection ==
  /\ [][(ended' \in {"eof", "error"} /\ connected) =>
          /\ ~connected'
          /\ server_vars' = server_vars
          /\ sent' = sent]_vars
  /\ []((ended \in {"eof", "error"}) => (~connected /\ ~panicked /\ ENABLED Accept))

\* After a next-track request that advanced the playlist, a read failed and
\* the handler returned.
C26_Witness ==
  /\ ended = "error"
  /\ ~connected
  /\ Len(received) = 1
  /\ last_request.rpc.kind = "NextTrack"
  /\ playlists[current_playlist].position = 1
  /\ Len(sent) = 1

\* --------------------------------------------------- claims about ID3 tags

\* A tag was written to the file and the file read back.
ReadBack == result.fn = "from_stream" /\ result.written.ok

\* The title and the artist of the tag written fit their slots.
FitsSlots == Len(call.tag.title) <= 29 /\ Len(call.tag.artist) <= 29

\* C27: a tag with a track number that is written and read back from the
\* 128 bytes has the title, artist, year and track that were written.
C27_TrackTagRoundTrips ==
  (ReadBack /\ call.tag.track.some /\ FitsSlots) =>
    /\ result.read.ok
    /\ result.read.tag.title = call.tag.title
    /\ result.read.tag.artist = call.tag.artist
    /\ result.read.tag.year = call.tag.year
    /\ result.read.tag.track = call.tag.track

\* A tag was written.
Written == result.fn = "to_stream" /\ result.ok

\* C28: a write that succeeds emits 128 bytes that start with "TAG", with
\* or without a track number and whatever the length of the fields; the
\* bytes at offsets 32, 62 and 92 are NUL, the text before them is the
\* field cut to 29 bytes, and the byte at offset 127 is the genre code.
C28_WriteEmitsFixedLayout ==
  Written =>
    /\ Len(result.bytes) = 128
    /\ result.file = call.file \o result.bytes
    /\ \A i \in 1..128 : result.bytes[i] \in 0..255
    /\ SubSeq(result.bytes, 1, 3) = <<84, 65, 71>>
    /\ result.bytes[33] = 0 /\ result.bytes[63] = 0 /\ result.bytes[93] = 0
    /\ \A i \in 1..29 :
         /\ result.bytes[3 + i] = IF i <= Len(call.tag.title) THEN call.tag.title[i] ELSE 0
         /\ result.bytes[33 + i] = IF i <= Len(call.tag.artist) THEN call.tag.artist[i] ELSE 0
         /\ result.bytes[63 + i] = IF i <= Len(call.tag.album) THEN call.tag.album[i] ELSE 0
    /\ result.bytes[128] = (CASE call.tag.genre = "Blues" -> 0
                              [] call.tag.genre = "Psybient" -> 191
                              [] call.tag.genre = "Unknown" -> 255)

\* A title over the capacity of its slot, an artist at it, no track number.
C28_Witness ==
  /\ Written
  /\ Len(call.tag.title) = MaxTextLen
  /\ Len(call.tag.artist) = 30
  /\ ~call.tag.track.some
  /\ result.bytes[32] = 97
  /\ result.bytes[33] = 0
  /\ result.bytes[128] = 191

\* C29: a tag with a year over 9999 is not written: the write fails and
\* emits nothing. A year of 0..9999 is written as four ASCII digits at
\* offsets 93..96 that spell the year, and a tag read back has that year.
C29_YearIsFourDigitsOrError ==
  /\ result.fn = "to_stream" =>
       IF call.tag.year > 9999
       THEN ~result.ok /\ result.bytes = <<>> /\ result.file = call.file
       ELSE /\ result.ok
            /\ Len(result.bytes) = 128
            /\ \A i \in 94..97 : result.bytes[i] \in 48..57
            /\ (result.bytes[94] - 48) * 1000 + (result.bytes[95] - 48) * 100
               + (result.bytes[96] - 48) * 10 + (result.bytes[97] - 48) = call.tag.year
  /\ ReadBack =>
       /\ result.read.ok <=> call.tag.title # [i \in 1..30 |->
                               IF i = 29 THEN 195 ELSE IF i = 30 THEN 169 ELSE 97]
       /\ result.read.ok => result.read.tag.year = call.tag.year

\* The year 7 was written as "0007" and read back as 7.
C29_Witness ==
  /\ ReadBack
  /\ call.tag.year = 7
  /\ SubSeq(result.written.bytes, 94, 97) = <<48, 48, 48, 55>>
  /\ result.read.ok
  /\ result.read.tag.year = 7

\* C30: a genre code of 0..191 decodes to the entry of the table at that
\* index, which is not Unknown and encodes as the same code (so no two
\* codes decode to one genre); a code of 192..255 decodes to Unknown, and
\* Unknown encodes as 255.
C30_GenreCodesRoundTrip ==
  result.fn = "genre" =>
    IF call.code <= 191
    THEN /\ result.genre = GENRE_TABLE[call.code + 1]
         /\ result.genre # "Unknown"
         /\ result.code = call.code
    ELSE /\ result.genre = "Unknown"
         /\ result.code = 255

C30_Witness ==
  /\ result.fn = "genre"
  /\ call.code = 191
  /\ result.genre = "Psybient"
  /\ result.code = 191

\* ------------------------------------------------ claims about the tag cache

\* The tracks of the playlists of a registry.
TracksOf(pls) == UNION {Range(pls[n].songs) : n \in DOMAIN pls}

\* C31: a reload that is answered ok removes nothing from the tag cache:
\* every path cached before is cached after with the tag it had, also a
\* path that is in no playlist any more; the paths added are tracks of the
\* reloaded playlists.
C31_ReloadKeepsCachedTags ==
  (ReloadDone /\ response = Status("Ok")) =>
    /\ \A path \in DOMAIN call.id3_tags :
         path \in DOMAIN id3_tags /\ id3_tags[path] = call.id3_tags[path]
    /\ \A path \in DOMAIN id3_tags \ DOMAIN call.id3_tags :
         path \in TracksOf(playlists) /\ id3_tags[path] = FileTag(path)

\* The track a was dropped from the registry and its tag is still cached.
C31_Witness ==
  /\ ReloadDone
  /\ response = Status("Ok")
  /\ "a" \in DOMAIN call.id3_tags
  /\ "a" \notin TracksOf(playlists)
  /\ "a" \in DOMAIN id3_tags
  /\ "b" \in DOMAIN id3_tags \ DOMAIN call.id3_tags

\* ---------------------------------------------- claims about a split request

\* The bytes after the last line feed of bytes.
RECURSIVE AfterLastLF(_)
AfterLastLF(bytes) ==
  IF first_newline(bytes) = -1 THEN bytes
  ELSE AfterLastLF(SubSeq(bytes, first_newline(bytes) + 2, Len(bytes)))

\* No read brought bytes after a line feed: the client sends its lines one
\* at a time, in as many pieces as it likes.
LinesOneAtATime(chunks) ==
  \A i \in 1..Len(chunks) :
    first_newline(chunks[i]) \in {-1, Len(chunks[i]) - 1}

\* C32: on a connection whose lines arrive one at a time, a read that
\* brings no line feed dispatches nothing, writes nothing and changes
\* nothing; the read that brings the line feed dispatches the request of
\* the whole line once, with the response and the change of state that
\* processing this request in the current state gives (for a reload, whose
\* outcome is the directory's, that it is dispatched), in however many
\* reads the line arrived.
C32_SplitLineDispatchedOnceAtLineFeed ==
  [][(ReadStep /\ LinesOneAtATime(received')) =>
       \E chunk \in {received'[Len(received')]} :
         IF first_newline(chunk) = -1
         THEN /\ last_read' = NoRead
              /\ sent' = sent
              /\ server_vars' = server_vars
         ELSE \E rpc \in {ParseLine(FirstLine(AfterLastLF(BytesRead(received)) \o chunk))} :
                    /\ last_read'.dispatched = <<rpc>>
                    /\ rpc.kind # "ReloadPlaylists" =>
                         \E env \in EnvsFor(rpc) : process_request(rpc, env)
                    /\ command_buffer' = <<>>
                    /\ connected' => sent' = Append(sent, send_response(response'))]_vars

\* The next-track line arrived in two reads and was answered with the
\* track after the second; the playlist advanced.
C32_Witness ==
  /\ connected
  /\ received = <<<<OpenBrace, StrMember("command", "next-track")>>, <<CloseBrace, LF>>>>
  /\ last_read.dispatched = <<[kind |-> "NextTrack"]>>
  /\ Len(sent) = 1
  /\ playlists[current_playlist].position = 1

\* ----------------------------------- claims about the removal loop's offset

\* C33: in the removal loop of merge_songs the running offset, 0 less the
\* number of removals made so far, stays a value of the unsigned type after
\* every decrement, so no build panics in the loop, and the songs left are
\* the songs that were not selected for removal, in their order.
C33_RemovalOffsetStaysInRange ==
  result.fn = "merge_songs" =>
    /\ \A k \in 1..Cardinality(RemovedIndices(call)) :
         0 - k >= 0 /\ 0 - k < USIZE_MODULUS
    /\ ~result.panic
    /\ result.songs =
         SelectSeq(call.pl.songs, LAMBDA song : ~Contains(call.to_remove, song))
         \o call.to_add

\* ------------------------------------------- claims about duplicate tracks

\* C34: in every state the server reaches from its start through any
\* requests, reloads from duplicate-free playlist files and shuffles among
\* them, no playlist of the registry holds a track twice.
C34_PlaylistsHoldNoDuplicates ==
  \A n \in DOMAIN playlists : NoDup(playlists[n].songs)

\* A reload has merged two tracks into p1.
C34_Witness ==
  /\ last_request.rpc.kind = "ReloadPlaylists"
  /\ response = Status("Ok")
  /\ "p1" \in DOMAIN playlists
  /\ Len(playlists["p1"].songs) = 2
  /\ NoDup(playlists["p1"].songs)

\* ------------------------------------------------ claims about the cooldown

\* C35: a next-track request is answered with a special entry only when at
\* least the interval has passed since the last one was served, or since
\* the start of the server when none was; a next-track request before that
\* is answered with the current track of the selected playlist.
C35_SpecialEntriesKeepTheCooldown ==
  [][/\ SpecialServed =>
          /\ now - last_play_time >= Interval
          /\ now >= Interval
          /\ last_play_time' = now
     /\ (RequestStep("NextTrack") /\ ~panicked' /\ now - last_play_time < Interval) =>
          /\ response' = [kind |-> "Track", path |-> current(playlists[current_playlist])]
          /\ last_play_time' = last_play_time]_vars

\* Two special entries were served, the second one interval after the first.
C35_Witness ==
  /\ last_request.rpc.kind = "NextTrack"
  /\ response = [kind |-> "Track", path |-> WEATHER_MP3_FILE]
  /\ sq_position = 0
  /\ last_play_time = 2 * Interval
  /\ now = last_play_time
  /\ ~panicked

\* ------------------------------------- claims about positions and selection

\* C36: a next-track request answered with a playlist track answers the
\* current track of the selected playlist and moves that playlist, and no
\* other, on by one; one answered with a special entry moves no playlist;
\* neither changes the selection or the tracks. switch-playlist moves no
\* playlist, so a playlist is found at the track where it was left.
C36_OnlySelectedPlaylistAdvances ==
  [][/\ (RequestStep("NextTrack") /\ ~panicked') =>
          /\ current_playlist' = current_playlist
          /\ IF SpecialServed
             THEN playlists' = playlists
             ELSE /\ response' = [kind |-> "Track",
                                  path |-> playlists[current_playlist].songs[
                                             playlists[current_playlist].position + 1]]
                  /\ DOMAIN playlists' = DOMAIN playlists
                  /\ \A n \in DOMAIN playlists :
                       /\ playlists'[n].songs = playlists[n].songs
                       /\ playlists'[n].position =
                            IF n = current_playlist
                            THEN (playlists[n].position + 1) % Len(playlists[n].songs)
                            ELSE playlists[n].position
     /\ RequestStep("SwitchPlaylist") => playlists' = playlists]_vars

\* p1 was left at its second track, and is selected again from p2.
C36_Witness ==
  /\ last_request = [rpc |-> [kind |-> "SwitchPlaylist", playlist |-> "p1"],
                     selected |-> "p2"]
  /\ response = Status("Ok")
  /\ current_playlist = "p1"
  /\ playlists["p1"].position = 1
  /\ playlists["p2"].position = 0

\* -------------------------------------- claims about a round of next-track

\* C37: with no special entry due and nothing but next-track requests, the
\* requests on a selected playlist answer its tracks in the order of the
\* playlist from the current position on, wrapping to the first after the
\* last; after as many requests as the playlist has tracks each track was
\* answered exactly once and the position is where it started.
C37_RoundOfNextTrackServesEachOnce ==
  result.fn = "next_tracks" =>
    LET length == Len(call.pl.songs)
    IN  /\ ~panicked
        /\ \A i \in 1..Len(result.served) :
             result.served[i] = call.pl.songs[((call.pl.position + i - 1) % length) + 1]
        /\ playlists["p1"].songs = call.pl.songs
        /\ playlists["p1"].position = (call.pl.position + Len(result.served)) % length
        /\ Len(result.served) = length =>
             /\ \A song \in Range(call.pl.songs) :
                  Cardinality({i \in 1..length : result.served[i] = song}) = 1
             /\ playlists["p1"].position = call.pl.position

\* A playlist of four tracks at its third was asked four times.
C37_Witness ==
  /\ result.fn = "next_tracks"
  /\ Len(call.pl.songs) = 4
  /\ call.pl.position = 2
  /\ result.served = <<call.pl.songs[3], call.pl.songs[4], call.pl.songs[1], call.pl.songs[2]>>
  /\ playlists["p1"].position = 2

\* ------------------------------------------ claims about the preview's entries

\* C38: the preview of a playlist of the registry has five entries with the
\* offsets 0..4 in this order, the entry of offset k naming the track at
\* index (position + k) mod length; of a playlist of fewer than five
\* tracks some track is named by more than one entry, of one of five or
\* more none is.
C38_PreviewListsFiveFromPosition ==
  (PreviewDone /\ call.playlist = "p1" /\ ~panicked) =>
    LET length == Len(call.pl.songs)
        tracks == response.tracks
    IN  /\ response.kind = "Tracks"
        /\ DOMAIN tracks = 1..5
        /\ \A k \in 0..4 :
             /\ tracks[k + 1].offset = k
             /\ tracks[k + 1].file = call.pl.songs[((call.pl.position + k) % length) + 1]
        /\ length < 5 <=> \E i, j \in 1..5 : i # j /\ tracks[i].file = tracks[j].file

\* A playlist of two tracks at its second: the preview names it three times.
C38_Witness ==
  /\ PreviewDone
  /\ call.playlist = "p1"
  /\ Len(call.pl.songs) = 2
  /\ call.pl.position = 1
  /\ response.kind = "Tracks"
  /\ Cardinality({i \in 1..5 : response.tracks[i].file = call.pl.songs[2]}) = 3

\* ------------------------------------------- claims about read-only requests

\* C39: list-playlists, get-playlist and the requests parsed as invalid
\* request, unknown command or invalid parameter change nothing of the
\* registry (playlists, positions, selection, tag cache) or of the special
\* queue; list-playlists answers the keys of the registry, get-playlist the
\* selected name, the others their status.
C39_ReadOnlyRequestsChangeNothing ==
  [][(/\ now' = now
      /\ last_request'.rpc.kind \in {"ListPlaylists", "GetPlaylist", "InvalidRequest",
                                     "UnknownCommand", "InvalidParameter"}) =>
       /\ Registry' = Registry
       /\ SpecialState' = SpecialState
       /\ panicked' = panicked
       /\ response' =
            (CASE last_request'.rpc.kind = "ListPlaylists" ->
                    [kind |-> "Playlists", playlists |-> DOMAIN playlists]
               [] last_request'.rpc.kind = "GetPlaylist" ->
                    [kind |-> "Playlist", playlist |-> current_playlist]
               [] OTHER -> Status(last_request'.rpc.kind))]_vars

\* list-playlists was answered with both names, p2 selected and moved on.
C39_Witness ==
  /\ last_request.rpc.kind = "ListPlaylists"
  /\ response = [kind |-> "Playlists", playlists |-> {"p1", "p2"}]
  /\ current_playlist = "p2"
  /\ playlists["p1"].position = 1

\* ------------------------------------------------- claims about reload-tags

\* C40: after reload-tags the cache holds the tag read from the file for
\* exactly the tracks of the current playlists that have a readable tag:
\* what was cached for a track that is in no playlist is gone, a track
\* without a readable tag has no entry; the request answers ok and changes
\* no playlist, no position and not the selection.
C40_ReloadTagsRebuildsCache ==
  result.fn = "reload_tags" =>
    /\ ~panicked
    /\ response = Status("Ok")
    /\ playlists = call.playlists
    /\ current_playlist = call.current_playlist
    /\ DOMAIN id3_tags = {path \in TracksOf(playlists) : FileTag(path) # "none"}
    /\ \A path \in DOMAIN id3_tags : id3_tags[path] = FileTag(path)

\* Tags were cached for a, b and c; b is in no playlist any more and the
\* file of c, which is in one, has no readable tag: only a is cached.
C40_Witness ==
  /\ result.fn = "reload_tags"
  /\ DOMAIN call.id3_tags = {"a", "b", "c"}
  /\ TracksOf(playlists) = {"a", "c"}
  /\ DOMAIN id3_tags = {"a"}
  /\ id3_tags["a"] = "tag-a"

====
